---- MODULE Spec2Model ----
(***************************************************************************)
(* Query orchestration pipeline of dbrevel: the per-account adapter        *)
(* factory, plan synthesis with retry and model fallback, the executor     *)
(* (single database and fan-out) and the request handler that ties them    *)
(* together; schema introspection, the factory lifecycle, the query        *)
(* endpoint and the stderr filter.                                         *)
(*                                                                         *)
(* The specifications of this module:                                      *)
(*   SpecFactory   concurrent get_adapters_for_account calls               *)
(*   SpecExec      QueryService._execute_single_db / _execute_cross_db     *)
(*   Spec          QueryService.execute_query for one request              *)
(*   SpecValidate  GeminiEngine.validate_query for one sub-query           *)
(*   SpecRetry     one retry_with_exponential_backoff call                 *)
(*   SpecMongo     one MongoDBAdapter.execute call                         *)
(*   SpecMask      QueryService._apply_field_masking                       *)
(*   SpecIntrospect     concurrent PostgresAdapter.introspect_schema calls *)
(*   SpecLifecycle      get_adapters calls, cancellation and shutdown      *)
(*   SpecLifecycleFair  the same under fairness of the shutdown steps      *)
(*   SpecDemo      the query endpoint and its demo fallback                *)
(*   SpecFilter    the stderr filter _StderrFilter                         *)
(*   SpecGate      the validation gate of execute_query                    *)
(***************************************************************************)
EXTENDS Integers, Sequences, FiniteSets, TLC

(***************************************************************************)
(* Bounds                                                                  *)
(***************************************************************************)
\* number of concurrent get_adapters_for_account calls
NCalls == 2

\* largest number of sub-queries in a plan handed to the executor
MaxQueries == 3

Calls == 1..NCalls

(***************************************************************************)
(* Project store and account resolution (core/accounts.py)                 *)
(***************************************************************************)
\* project API keys known to the project store
ProjectKeys == {"key_a1", "key_a2", "key_b", "key_c"}

DbNames == {"postgres", "mongodb"}

\* The project documents: two projects of the same parent account with
\* different database URLs, a project of another account that has only a
\* relational database, and a project with no database URL at all.  URLs
\* are stored encrypted or, for older records, in plain text.
Projects ==
    [k \in ProjectKeys |->
        CASE k = "key_a1" -> [account_id |-> "acct_a",
                              postgres_url |-> "enc:pg_a1",
                              mongodb_url |-> "mongodb://mongo_a1"]
          [] k = "key_a2" -> [account_id |-> "acct_a",
                              postgres_url |-> "postgresql://pg_a2",
                              mongodb_url |-> "enc:mongo_a2"]
          [] k = "key_b"  -> [account_id |-> "acct_b",
                              postgres_url |-> "enc:pg_b",
                              mongodb_url |-> ""]
          [] OTHER        -> [account_id |-> "acct_c",
                              postgres_url |-> "",
                              mongodb_url |-> ""]]

AccountIds == {Projects[k].account_id : k \in ProjectKeys}

\* get_account_by_api_key_async: AccountConfig built from the project
\* document; its id is the id of the parent account.
get_account_by_api_key_async(api_key) ==
    [id           |-> Projects[api_key].account_id,
     postgres_url |-> Projects[api_key].postgres_url,
     mongodb_url  |-> Projects[api_key].mongodb_url]

PlainPrefixes == {"postgresql://pg_a2", "mongodb://mongo_a1"}

\* decrypt_database_url: plain-text URLs pass through, ciphertext is
\* decrypted by the encryption service.
decrypt_database_url(encrypted_url) ==
    CASE encrypted_url = ""             -> ""
      [] encrypted_url \in PlainPrefixes -> encrypted_url
      [] encrypted_url = "enc:pg_a1"    -> "postgresql://pg_a1"
      [] encrypted_url = "enc:mongo_a2" -> "mongodb://mongo_a2"
      [] encrypted_url = "enc:pg_b"     -> "postgresql://pg_b"
      [] OTHER                          -> "undecryptable"

\* the stored URL of a project for one adapter key
ConfiguredUrl(account, db) ==
    IF db = "postgres" THEN account.postgres_url ELSE account.mongodb_url

(***************************************************************************)
(* State                                                                   *)
(***************************************************************************)
VARIABLES
    \* adapter factory
    adapters,     \* adapter instances created so far: <<[db, url]>>, index = identity
    cache,        \* _adapters_by_account: account id -> entry
    fpc,          \* position of each get_adapters_for_account call
    fkey,         \* project key the call was made under
    flocal,       \* the call's local `adapters` dict (adapter index, 0 = absent)
    foutcome,     \* per call and database: outcome of construct + connect
    fret,         \* the dict the call returned
    \* executor
    xplan,        \* plan.queries
    xavail,       \* adapter keys the factory holds for the tenant
    xpath,        \* "single" or "cross" (query_service.py:70-75)
    xpc,          \* position of the executor
    xtasks,       \* state of each adapter.execute coroutine
    xout,         \* rows each adapter.execute call returned
    xargs,        \* second argument each adapter.execute call was given
    xorder,       \* task indices in the order the calls ended
    xresult,      \* the rows the executor returned
    xerror,       \* the error the executor raised
    \* request handler and plan synthesis
    rq,           \* the QueryRequest (models/query.py:8-19)
    rmodel,       \* settings.GEMINI_MODEL, the preferred model
    ravail,       \* adapter keys the factory holds for the tenant
    rverdict,     \* what the validator model answers about the plan
    rpc,          \* position of execute_query
    rmidx,        \* index into models_to_try
    rattempt,     \* attempt number inside retry_with_exponential_backoff
    rcalls,       \* every generate_content call made: <<[model, o]>>
    rplan,        \* the plan generate_query_plan returned (0 = none)
    rresult,      \* the QueryResult returned
    rerror,       \* the error the request ended with
    rintrospect,  \* adapter.introspect_schema calls made
    rvalidate,    \* validate_query calls made
    rexecute,     \* adapter.execute calls made
    \* plan validator (GeminiEngine.validate_query called once)
    vmodel,       \* self.model_name, the preferred model
    vpc,          \* position of validate_query
    vmidx,        \* index into models_to_try
    vattempt,     \* attempt number inside retry_with_exponential_backoff
    vcalls,       \* every generate_content call made: <<[model, o]>>
    vlast,        \* last_exception
    vresult,      \* the verdict validate_query returned
    verror,       \* the error validate_query raised
    \* one retry_with_exponential_backoff call (core/retry.py)
    tp,           \* its keyword arguments
    tpc,          \* "run", "returned" or "raised"
    tattempt,     \* the loop variable `attempt`
    tlog,         \* outcome of every invocation of func, in order
    tsleeps,      \* argument of every asyncio.sleep, in half time units
    terror,       \* the exception that left the call
    \* one MongoDBAdapter.execute call (adapters/mongodb.py)
    mcoll,        \* the `collection` argument
    mpipe,        \* the `pipeline` argument
    mdocs,        \* the documents the pipeline selects in the collection
    mpc,          \* "call", "returned" or "raised"
    mdriver,      \* the aggregate call issued on the driver, if any
    mresult,      \* the documents returned
    merror,       \* the exception raised
    \* QueryService._apply_field_masking applied to a result, twice
    kmasks,       \* security_ctx.field_masks: table -> fields
    krows,        \* the result handed in
    kpc,          \* "start", "masked" or "remasked"
    kout,         \* the masked result
    kout2,        \* the masked result, masked again
    \* PostgresAdapter.introspect_schema calls on one adapter instance
    idb,          \* version of the catalog the database holds now
    ischema,      \* self._schema
    ipoolgen,     \* self.pool: 0 = None, else the number of the pool
    inextgen,     \* number the next created pool gets
    ipc,          \* position of each call
    iattempt,     \* each call's `attempt` inside with_retry
    ifetches,     \* catalog queries each call issued
    irebuilds,    \* _reconnect_pool calls each call made
    iheld,        \* pool whose connection each call holds (0 = none)
    iclosing,     \* pool each call waits on in pool.close() (0 = none)
    irows,        \* catalog version each call fetched
    iret,         \* the schema each call returned
    ierr,         \* the exception each call ended with
    ilate,        \* the call started after some call had returned
    \* AdapterFactory.shutdown and the callers of the factory
    spc,          \* position of shutdown: "idle", "waiting", "returned"
    stasks,       \* disconnect_tasks: <<[adapter, state]>>
    sidx,         \* index of the task the wait loop is at
    sdisc,        \* adapters on which disconnect() has been invoked
    srecycled,    \* requests that followed a finished one
    \* one request to the query endpoint (api/v1/query.py)
    dkey,         \* the X-Project-Key header ("" = absent)
    dstore,       \* what each lookup of the demo project finds, in order
    dcreated,     \* what ensure_demo_account returns
    dexec,        \* how query_service.execute_query ends
    dpc,          \* position of the handler
    dtenant,      \* the local `tenant`
    dlookups,     \* lookups of the demo project made
    densures,     \* ensure_demo_account calls made
    dstatus,      \* HTTP status of the response (0 = none yet)
    \* one _StderrFilter (main.py:78-153)
    wseq,         \* the texts written so far, in order
    wbuf,         \* self.buffer
    wsink,        \* the texts original_stderr received, in order
    wpc,          \* "writing" or "flushed"
    \* steps 4 and 5 of execute_query (query_service.py:53-75)
    gskip,        \* the attribute skip_validation of the request object
    ganswers,     \* what validate_query does for each sub-query, in order
    gpc,          \* position of execute_query
    gidx,         \* index of the sub-query being validated
    gvalidated,   \* validate_query calls made
    gexecute,     \* adapter execute calls made
    gerror        \* the exception execute_query raised

factoryVars == <<adapters, cache, fpc, fkey, flocal, foutcome, fret>>
execVars == <<xplan, xavail, xpath, xpc, xtasks, xout, xargs, xorder, xresult,
             xerror>>
reqVars == <<rq, rmodel, ravail, rverdict, rpc, rmidx, rattempt, rcalls,
             rplan, rresult, rerror, rintrospect, rvalidate, rexecute>>
valVars == <<vmodel, vpc, vmidx, vattempt, vcalls, vlast, vresult, verror>>
retryVars == <<tp, tpc, tattempt, tlog, tsleeps, terror>>
mongoVars == <<mcoll, mpipe, mdocs, mpc, mdriver, mresult, merror>>
maskVars == <<kmasks, krows, kpc, kout, kout2>>
introVars == <<idb, ischema, ipoolgen, inextgen, ipc, iattempt, ifetches,
               irebuilds, iheld, iclosing, irows, iret, ierr, ilate>>
shutVars == <<spc, stasks, sidx, sdisc, srecycled>>
demoVars == <<dkey, dstore, dcreated, dexec, dpc, dtenant, dlookups,
              densures, dstatus>>
filterVars == <<wseq, wbuf, wsink, wpc>>
gateVars == <<gskip, ganswers, gpc, gidx, gvalidated, gexecute, gerror>>
tailVars == <<demoVars, filterVars, gateVars>>
restVars == <<introVars, shutVars, tailVars>>
coreVars == <<factoryVars, execVars, reqVars, valVars, retryVars, mongoVars,
              maskVars>>
outsideIntro == <<coreVars, shutVars, tailVars>>
outsideFactory == <<execVars, reqVars, valVars, retryVars, mongoVars,
                    maskVars, introVars, tailVars>>
outsideDemo == <<coreVars, introVars, shutVars, filterVars, gateVars>>
outsideFilter == <<coreVars, introVars, shutVars, demoVars, gateVars>>
outsideGate == <<coreVars, introVars, shutVars, demoVars, filterVars>>
vars == <<factoryVars, execVars, reqVars, valVars, retryVars, mongoVars,
          maskVars, restVars>>

(***************************************************************************)
(* Adapter factory (adapters/factory.py)                                   *)
(***************************************************************************)
NoEntry == [present |-> FALSE, postgres |-> 0, mongodb |-> 0]
EmptyDict == [postgres |-> 0, mongodb |-> 0]
NoOutcome == [postgres |-> "none", mongodb |-> "none"]

\* what construct + connect of one adapter can end in (factory.py:66-92)
ConnectOutcomes == {"ok", "timeout", "configuration", "connection"}

Account(c) == get_account_by_api_key_async(fkey[c])

FactoryInit ==
    /\ adapters = <<>>
    /\ cache = [a \in AccountIds |-> NoEntry]
    /\ fpc = [c \in Calls |-> "idle"]
    /\ fkey = [c \in Calls |-> "key_a1"]
    /\ flocal = [c \in Calls |-> EmptyDict]
    /\ foutcome = [c \in Calls |-> NoOutcome]
    /\ fret = [c \in Calls |-> EmptyDict]

\* the factory is not in use
FactoryOff ==
    /\ adapters = <<>>
    /\ cache = [a \in AccountIds |-> NoEntry]
    /\ fpc = [c \in Calls |-> "off"]
    /\ fkey = [c \in Calls |-> "key_a1"]
    /\ flocal = [c \in Calls |-> EmptyDict]
    /\ foutcome = [c \in Calls |-> NoOutcome]
    /\ fret = [c \in Calls |-> EmptyDict]

\* factory.py:132-150 followed by factory.py:168-172: raise when no
\* adapter was created, otherwise store the dict in the cache and return
\* the cached dict.  No suspension point lies between the last connect,
\* the assignment to the cache and the return.
FinishCreate(c, account, local) ==
    IF local = EmptyDict
    THEN /\ fpc' = [fpc EXCEPT ![c] = "no_adapters"]
         /\ UNCHANGED <<cache, fret>>
    ELSE /\ cache' = [cache EXCEPT ![account.id] =
                        [present |-> TRUE, postgres |-> local.postgres,
                         mongodb |-> local.mongodb]]
         /\ fret' = [fret EXCEPT ![c] = local]
         /\ fpc' = [fpc EXCEPT ![c] = "returned"]

\* a PostgreSQL failure that skips the MongoDB block
AfterPostgresAbort(account, outcome) ==
    IF outcome = "ok" /\ account.mongodb_url # "" THEN "mongo" ELSE "finish"

\* factory.py:64-95: after the PostgreSQL block, whatever its outcome,
\* the MongoDB block runs when a MongoDB URL is configured.
AfterPostgres(account, outcome) ==
    IF account.mongodb_url # "" THEN "mongo" ELSE "finish"

\* A request arrives under a project key and calls
\* get_adapters_for_account (factory.py:167): a cached account returns
\* the cached dict at once, an uncached one starts creating adapters and
\* suspends at the first connect.
GetAdapters(c, key) ==
    /\ fpc[c] = "idle"
    /\ fkey' = [fkey EXCEPT ![c] = key]
    /\ LET account == get_account_by_api_key_async(key) IN
       IF cache[account.id].present
       THEN /\ fret' = [fret EXCEPT ![c] =
                          [postgres |-> cache[account.id].postgres,
                           mongodb |-> cache[account.id].mongodb]]
            /\ fpc' = [fpc EXCEPT ![c] = "returned_cached"]
            /\ UNCHANGED cache
       ELSE IF account.postgres_url # ""
            THEN /\ fpc' = [fpc EXCEPT ![c] = "postgres"]
                 /\ UNCHANGED <<cache, fret>>
            ELSE IF account.mongodb_url # ""
            THEN /\ fpc' = [fpc EXCEPT ![c] = "mongo"]
                 /\ UNCHANGED <<cache, fret>>
            ELSE FinishCreate(c, account, EmptyDict)
    /\ UNCHANGED <<adapters, flocal, foutcome>>
    /\ UNCHANGED <<execVars, reqVars, valVars, retryVars, mongoVars,
                 maskVars, restVars>>

\* factory.py:64-92: decrypt, construct and connect the PostgreSQL
\* adapter; every failure is recorded and swallowed.
ConnectPostgres(c, outcome) ==
    /\ fpc[c] = "postgres"
    /\ foutcome' = [foutcome EXCEPT ![c].postgres = outcome]
    /\ LET url == decrypt_database_url(Account(c).postgres_url)
           local == IF outcome = "ok"
                    THEN [flocal[c] EXCEPT !.postgres = Len(adapters) + 1]
                    ELSE flocal[c]
       IN /\ adapters' = IF outcome = "ok"
                         THEN Append(adapters, [db |-> "postgres", url |-> url])
                         ELSE adapters
          /\ flocal' = [flocal EXCEPT ![c] = local]
          /\ IF AfterPostgres(Account(c), outcome) = "mongo"
             THEN /\ fpc' = [fpc EXCEPT ![c] = "mongo"]
                  /\ UNCHANGED <<cache, fret>>
             ELSE FinishCreate(c, Account(c), local)
    /\ UNCHANGED fkey
    /\ UNCHANGED <<execVars, reqVars, valVars, retryVars, mongoVars,
                 maskVars, restVars>>

\* factory.py:95-130 and the tail of the call: the MongoDB adapter.
ConnectMongo(c, outcome) ==
    /\ fpc[c] = "mongo"
    /\ foutcome' = [foutcome EXCEPT ![c].mongodb = outcome]
    /\ LET url == decrypt_database_url(Account(c).mongodb_url)
           local == IF outcome = "ok"
                    THEN [flocal[c] EXCEPT !.mongodb = Len(adapters) + 1]
                    ELSE flocal[c]
       IN /\ adapters' = IF outcome = "ok"
                         THEN Append(adapters, [db |-> "mongodb", url |-> url])
                         ELSE adapters
          /\ flocal' = [flocal EXCEPT ![c] = local]
          /\ FinishCreate(c, Account(c), local)
    /\ UNCHANGED fkey
    /\ UNCHANGED <<execVars, reqVars, valVars, retryVars, mongoVars,
                 maskVars, restVars>>

FactoryNext ==
    \/ \E c \in Calls, key \in ProjectKeys : GetAdapters(c, key)
    \/ \E c \in Calls, o \in ConnectOutcomes : ConnectPostgres(c, o)
    \/ \E c \in Calls, o \in ConnectOutcomes : ConnectMongo(c, o)

(***************************************************************************)
(* Adapters (adapters/postgres.py, adapters/mongodb.py)                    *)
(***************************************************************************)
\* Stand-in for the row cap of the adapters: max_rows (postgres.py:236)
\* and max_docs (mongodb.py:159) are 10000 in the code; the model counts
\* rows against a small cap.
MaxRowsCap == 2

\* longest collection name explored, in name units
MaxNameLen == 2

\* The units collection names are made of: a letter, the letters
\* "system", a digit, the underscore, "$", the NUL character, ".", a
\* newline and "-".
NameUnits == {"a", "system", "7", "_", "$", "NUL", ".", "NL", "-"}
LetterUnits == {"a", "system"}
DigitUnits == {"7"}

Names == UNION { [1..n -> NameUnits] : n \in 0..MaxNameLen }

\* Python values that can arrive as a collection name: a str, None, the
\* integers 0 and 5, the empty list and a list holding one name.
StrValue(name) == [type |-> "str", chars |-> name]
ListValue(name) == [type |-> "list", chars |-> name]
NoneValue == [type |-> "none", chars |-> <<>>]
AbsentValue == [type |-> "absent", chars |-> <<>>]

\* truth value of a Python object in `if collection:` / `not name`
Truthy(v) ==
    CASE v.type = "str" -> v.chars # <<>>
      [] v.type \in {"list", "int"} -> TRUE
      [] OTHER -> FALSE

\* mongodb.py:17, 241: VALID_COLLECTION_NAME.match(name) for the pattern
\* ^[a-zA-Z_][a-zA-Z0-9_]*$ ; in Python "$" also matches just before a
\* newline that ends the string.
regex_match(name) ==
    LET body == IF Len(name) >= 2 /\ name[Len(name)] = "NL"
                THEN SubSeq(name, 1, Len(name) - 1)
                ELSE name
    IN /\ Len(body) >= 1
       /\ body[1] \in LetterUnits \cup {"_"}
       /\ \A k \in 2..Len(body) :
             body[k] \in LetterUnits \cup DigitUnits \cup {"_"}

\* mongodb.py:221-241
validate_collection_name(v) ==
    IF ~Truthy(v) \/ v.type # "str" THEN FALSE
    ELSE IF Len(v.chars) >= 2 /\ v.chars[1] = "system" /\ v.chars[2] = "."
    THEN FALSE
    ELSE IF \E k \in 1..Len(v.chars) : v.chars[k] \in {"NUL", "$"}
    THEN FALSE
    ELSE regex_match(v.chars)

\* the first n elements of a sequence
Take(rows, n) == SubSeq(rows, 1, IF n <= Len(rows) THEN n ELSE Len(rows))

\* The aggregation pipelines told apart: the empty list, and a list
\* whose first stage may carry a "collection" key and a "stages" list,
\* with or without a $limit stage.  A $limit stage written by the plan
\* is taken to allow more documents than the collection holds.
Pipelines(names) ==
    { [empty |-> TRUE, first_collection |-> AbsentValue,
       has_limit |-> FALSE, stages |-> "absent"] }
    \cup [empty : {FALSE},
          first_collection : {AbsentValue} \cup { StrValue(n) : n \in names },
          has_limit : BOOLEAN,
          stages : {"absent", "with_limit", "without_limit"}]

NoDriverCall == [called |-> FALSE, collection |-> <<>>, limit_stage |-> "none"]

\* mongodb.py:198-219: the aggregation on the resolved collection: a
\* $limit stage is appended when no stage has one, and at most max_docs
\* documents are read from the cursor.
aggregate(name, has_limit, docs, max_docs) ==
    [error |-> "none",
     driver |-> [called |-> TRUE, collection |-> name,
                 limit_stage |-> IF has_limit THEN "own" ELSE "appended"],
     docs |-> Take(docs, max_docs)]

InvalidName ==
    [error |-> "ValueError", driver |-> NoDriverCall, docs |-> <<>>]

\* mongodb.py:157-219: MongoDBAdapter.execute(pipeline, collection,
\* max_docs) on a collection holding `docs`
mongo_execute(pipeline, collection, docs, max_docs) ==
    IF Truthy(collection)
    THEN IF ~validate_collection_name(collection)
         THEN InvalidName
         ELSE aggregate(collection.chars, pipeline.has_limit, docs, max_docs)
    ELSE IF ~pipeline.empty /\ pipeline.first_collection.type # "absent"
    THEN IF ~validate_collection_name(pipeline.first_collection)
         THEN InvalidName
         ELSE aggregate(pipeline.first_collection.chars,
                        IF pipeline.stages = "absent"
                        THEN pipeline.has_limit
                        ELSE pipeline.stages = "with_limit",
                        docs, max_docs)
    ELSE InvalidName

\* postgres.py:255-277: PostgresAdapter.execute on a query that selects
\* `rows`: LIMIT max_rows is appended only when the text of the query
\* does not contain "LIMIT" in any letter case.  A LIMIT written in the
\* query is taken to allow more rows than the query selects.
postgres_execute(limit_text, rows, max_rows) ==
    IF limit_text THEN rows ELSE Take(rows, max_rows)

(***************************************************************************)
(* Executor (services/query_service.py)                                    *)
(***************************************************************************)
\* the shapes of DatabaseQuery the executor tells apart
QueryShapes ==
    { [database |-> "postgres", query_type |-> "sql",
       is_list |-> FALSE, collection |-> <<>>, limit_text |-> FALSE],
      [database |-> "postgres", query_type |-> "sql",
       is_list |-> FALSE, collection |-> <<>>, limit_text |-> TRUE],
      [database |-> "mongodb", query_type |-> "mongodb",
       is_list |-> TRUE, collection |-> <<"a", "7">>, limit_text |-> FALSE],
      [database |-> "mongodb", query_type |-> "mongodb",
       is_list |-> TRUE, collection |-> <<>>, limit_text |-> FALSE],
      [database |-> "mongodb", query_type |-> "mongodb",
       is_list |-> FALSE, collection |-> <<"a", "7">>, limit_text |-> FALSE],
      [database |-> "postgres", query_type |-> "cross-db",
       is_list |-> FALSE, collection |-> <<>>, limit_text |-> FALSE] }

PlanQueries == UNION { [1..n -> QueryShapes] : n \in 0..MaxQueries }

\* the rows sub-query i selects in its database: one row, or one more
\* than the cap
RowsOf(i) == { <<10 * i + 1>>, [k \in 1..(MaxRowsCap + 1) |-> 10 * i + k] }

\* query_service.py:119/134-136/153/160-163: the second positional
\* argument of the adapter.execute call made for sub-query q: the
\* parameters of a relational sub-query, the list [collection] for a
\* document one.
second_argument(q) ==
    IF q.query_type = "sql" THEN AbsentValue ELSE ListValue(q.collection)

\* the aggregation pipeline of document sub-query q
pipeline_of(q) ==
    [empty |-> FALSE, first_collection |-> AbsentValue,
     has_limit |-> q.limit_text, stages |-> "absent"]

\* The adapter.execute call for sub-query q on a database where it
\* selects `rows`: PostgresAdapter.execute(query, params) or
\* MongoDBAdapter.execute(pipeline, collection); max_rows / max_docs is
\* never passed and keeps its default.
adapter_execute(q, arg, rows) ==
    IF q.query_type = "sql"
    THEN [error |-> "none", driver |-> NoDriverCall,
          docs |-> postgres_execute(q.limit_text, rows, MaxRowsCap)]
    ELSE mongo_execute(pipeline_of(q), arg, rows, MaxRowsCap)

ExecInit ==
    /\ xplan \in PlanQueries
    /\ xavail \in (SUBSET DbNames) \ {{}}
    /\ xpath = "none"
    /\ xpc = "start"
    /\ xtasks = <<>>
    /\ xout = <<>>
    /\ xargs = <<>>
    /\ xorder = <<>>
    /\ xresult = <<>>
    /\ xerror = "none"

\* the executor is not in use
ExecOff ==
    /\ xplan = <<>>
    /\ xavail = {}
    /\ xpath = "none"
    /\ xpc = "off"
    /\ xtasks = <<>>
    /\ xout = <<>>
    /\ xargs = <<>>
    /\ xorder = <<>>
    /\ xresult = <<>>
    /\ xerror = "none"

\* a lookup that hands back some adapter for any name
factory_getAny(avail, name) == TRUE

\* factory.py:218-223: AdapterFactory.get finds the adapter of that name
\* among the account's adapters, or raises ValueError
factory_get(avail, name) == name \in avail

Raise(kind) ==
    /\ xpc' = "raised"
    /\ xerror' = kind

\* query_service.py:70-75: one sub-query goes to the single-database
\* path, any other number to the cross-database path.
Dispatch ==
    /\ xpc = "start"
    /\ xpath' = IF Len(xplan) = 1 THEN "single" ELSE "cross"
    /\ xpc' = "prepare"
    /\ UNCHANGED <<xplan, xavail, xtasks, xout, xargs, xorder, xresult, xerror>>
    /\ UNCHANGED <<factoryVars, reqVars, valVars, retryVars, mongoVars,
                 maskVars, restVars>>

\* query_service.py:113-140: resolve the adapter (factory.py:218-223),
\* dispatch on the query type and call adapter.execute.
SinglePrepare ==
    /\ xpc = "prepare" /\ xpath = "single"
    /\ LET q == xplan[1] IN
       IF ~factory_get(xavail, q.database)
       THEN Raise("ValueError") /\ UNCHANGED xtasks
       ELSE IF q.query_type = "sql"
       THEN xtasks' = <<"running">> /\ xpc' = "await" /\ UNCHANGED xerror
       ELSE IF q.query_type = "mongodb"
       THEN IF ~q.is_list
            THEN Raise("InvalidQueryError") /\ UNCHANGED xtasks
            ELSE IF q.collection = <<>>
            THEN Raise("MissingCollectionError") /\ UNCHANGED xtasks
            ELSE xtasks' = <<"running">> /\ xpc' = "await" /\ UNCHANGED xerror
       ELSE Raise("UnsupportedQueryError") /\ UNCHANGED xtasks
    /\ xout' = IF xpc' = "await" THEN << <<>> >> ELSE xout
    /\ xargs' = IF xpc' = "await" THEN <<second_argument(xplan[1])>> ELSE xargs
    /\ UNCHANGED <<xplan, xavail, xpath, xorder, xresult>>
    /\ UNCHANGED <<factoryVars, reqVars, valVars, retryVars, mongoVars,
                 maskVars, restVars>>

\* query_service.py:149-169: one iteration of the loop that builds the
\* coroutines; a coroutine object is created here but does not run yet.
CrossPrepare ==
    /\ xpc = "prepare" /\ xpath = "cross"
    /\ Len(xtasks) < Len(xplan)
    /\ LET q == xplan[Len(xtasks) + 1] IN
       IF ~factory_get(xavail, q.database)
       THEN Raise("ValueError") /\ UNCHANGED <<xtasks, xout, xargs>>
       ELSE IF q.query_type = "sql"
               \/ (q.query_type = "mongodb" /\ q.collection # <<>>)
       THEN /\ xtasks' = Append(xtasks, "created")
            /\ xout' = Append(xout, <<>>)
            /\ xargs' = Append(xargs, second_argument(q))
            /\ UNCHANGED <<xpc, xerror>>
       ELSE IF q.query_type = "mongodb"
       THEN Raise("MissingCollectionError") /\ UNCHANGED <<xtasks, xout, xargs>>
       ELSE Raise("UnsupportedQueryError") /\ UNCHANGED <<xtasks, xout, xargs>>
    /\ UNCHANGED <<xplan, xavail, xpath, xorder, xresult>>
    /\ UNCHANGED <<factoryVars, reqVars, valVars, retryVars, mongoVars,
                 maskVars, restVars>>

\* query_service.py:171: asyncio.gather wraps every coroutine in a task
\* and the event loop starts them all.
GatherStart ==
    /\ xpc = "prepare" /\ xpath = "cross"
    /\ Len(xtasks) = Len(xplan)
    /\ xtasks' = [i \in 1..Len(xtasks) |-> "running"]
    /\ xpc' = "await"
    /\ UNCHANGED <<xplan, xavail, xpath, xout, xargs, xorder, xresult, xerror>>
    /\ UNCHANGED <<factoryVars, reqVars, valVars, retryVars, mongoVars,
                 maskVars, restVars>>

\* An adapter.execute call ends: the database fails (~ok), or the
\* adapter raises or returns rows.  Nothing in the executor stops a
\* running call, so this can happen at any time.
TaskEnd(i, ok, rows) ==
    /\ i \in 1..Len(xtasks)
    /\ xtasks[i] = "running"
    /\ LET res == adapter_execute(xplan[i], xargs[i], rows)
           good == ok /\ res.error = "none"
       IN /\ xtasks' = [xtasks EXCEPT ![i] = IF good THEN "done" ELSE "failed"]
          /\ xout' = [xout EXCEPT ![i] = IF good THEN res.docs ELSE <<>>]
    /\ xorder' = Append(xorder, i)
    /\ UNCHANGED <<xplan, xavail, xpath, xpc, xargs, xresult, xerror>>
    /\ UNCHANGED <<factoryVars, reqVars, valVars, retryVars, mongoVars,
                 maskVars, restVars>>

\* query_service.py:119/134 and 142: the awaited call of the single
\* path returns its rows or propagates its error.
SingleReturn ==
    /\ xpc = "await" /\ xpath = "single"
    /\ xtasks[1] \in {"done", "failed"}
    /\ IF xtasks[1] = "done"
       THEN xpc' = "returned" /\ xresult' = xout[1] /\ UNCHANGED xerror
       ELSE Raise("AdapterError") /\ UNCHANGED xresult
    /\ UNCHANGED <<xplan, xavail, xpath, xtasks, xout, xargs, xorder>>
    /\ UNCHANGED <<factoryVars, reqVars, valVars, retryVars, mongoVars,
                 maskVars, restVars>>

RECURSIVE Concat(_)
\* query_service.py:179-181: merged.extend(result_set) for each result set
Concat(seqs) ==
    IF seqs = <<>> THEN <<>> ELSE Head(seqs) \o Concat(Tail(seqs))

\* results handed back in the order the calls ended
gatherCompletionOrder(outs, order) ==
    [k \in 1..Len(order) |-> outs[order[k]]]

\* asyncio.gather (query_service.py:171): the result list follows the
\* order of the awaitables passed in, not the order of completion.
gather(outs, order) ==
    [k \in 1..Len(outs) |-> outs[k]]

\* query_service.py:171-183: gather propagates the first exception as soon
\* as one task fails, leaving the other tasks as they are; when every
\* task is done the result sets are concatenated.
GatherReturn ==
    /\ xpc = "await" /\ xpath = "cross"
    /\ IF \E i \in 1..Len(xtasks) : xtasks[i] = "failed"
       THEN Raise("AdapterError") /\ UNCHANGED xresult
       ELSE /\ \A i \in 1..Len(xtasks) : xtasks[i] = "done"
            /\ xresult' = Concat(gather(xout, xorder))
            /\ xpc' = "returned"
            /\ UNCHANGED xerror
    /\ UNCHANGED <<xplan, xavail, xpath, xtasks, xout, xargs, xorder>>
    /\ UNCHANGED <<factoryVars, reqVars, valVars, retryVars, mongoVars,
                 maskVars, restVars>>

ExecNext ==
    \/ Dispatch
    \/ SinglePrepare
    \/ CrossPrepare
    \/ GatherStart
    \/ \E i \in 1..MaxQueries, ok \in BOOLEAN :
          \E rows \in RowsOf(i) : TaskEnd(i, ok, rows)
    \/ SingleReturn
    \/ GatherReturn

(***************************************************************************)
(* Plan synthesis (core/gemini.py, core/retry.py)                          *)
(***************************************************************************)
\* gemini.py:115: max_retries of the synthesis retry
max_retries == 3

FlashModel == "gemini-3-flash-preview"

\* gemini.py:90-96: the configured model, then Flash, duplicates removed
models_to_try(model_name) ==
    IF model_name = FlashModel THEN <<FlashModel>>
    ELSE <<model_name, FlashModel>>

\* gemini.py:118-123: the exception kinds the retry catches
retry_on == {"ConnectionError", "TimeoutError", "OSError", "ServerError"}

\* The JSON values a response text can carry, by what _process_response
\* looks at: "none" is a text with no JSON object in it.  The extractor
\* (gemini.py:409-413) starts at the first "{", so what it returns is
\* always an object; a text without one raises InvalidJSONError.
JsonTable ==
    [j \in {"sum", "queries_not_list", "bad_query", "plan_users",
            "plan_users_orders", "plan_no_databases",
            "plan_other_database", "none"} |->
        CASE j = "sum" ->
               [is_object |-> TRUE, databases |-> "absent",
                queries |-> "absent", plan |-> 0]
          [] j = "queries_not_list" ->
               [is_object |-> TRUE, databases |-> "list",
                queries |-> "string", plan |-> 0]
          [] j = "bad_query" ->
               [is_object |-> TRUE, databases |-> "list",
                queries |-> "list", plan |-> 0]
          [] j = "plan_users" ->
               [is_object |-> TRUE, databases |-> "list",
                queries |-> "list", plan |-> 1]
          [] j = "plan_users_orders" ->
               [is_object |-> TRUE, databases |-> "list",
                queries |-> "list", plan |-> 2]
          [] j = "plan_no_databases" ->
               [is_object |-> TRUE, databases |-> "list",
                queries |-> "list", plan |-> 3]
          [] j = "plan_other_database" ->
               [is_object |-> TRUE, databases |-> "list",
                queries |-> "list", plan |-> 4]
          [] OTHER ->
               [is_object |-> FALSE, databases |-> "absent",
                queries |-> "absent", plan |-> 0]]

\* The plans the valid responses describe: plan 1 is one relational
\* sub-query without a row-limit clause, plan 2 adds a document one.
\* Plans 3 and 4 are objects QueryPlan(**plan_data) accepts as well
\* (models/query.py:137-146 declares two lists and no validator): one
\* with "databases": [], one whose sub-query names a database that
\* "databases" does not list.
PlanTable ==
    << [databases |-> <<"postgres">>,
        queries |-> << [database |-> "postgres", query_type |-> "sql",
                        is_list |-> FALSE, collection |-> ""] >>],
       [databases |-> <<"postgres", "mongodb">>,
        queries |-> << [database |-> "postgres", query_type |-> "sql",
                        is_list |-> FALSE, collection |-> ""],
                       [database |-> "mongodb", query_type |-> "mongodb",
                        is_list |-> TRUE, collection |-> "orders"] >>],
       [databases |-> <<>>,
        queries |-> << [database |-> "postgres", query_type |-> "sql",
                        is_list |-> FALSE, collection |-> ""] >>],
       [databases |-> <<"postgres">>,
        queries |-> << [database |-> "mongodb", query_type |-> "mongodb",
                        is_list |-> TRUE, collection |-> "orders"] >>] >>

\* what one generate_content call can end in: an exception, or a
\* response with or without candidates and text
CallOutcomes ==
    { [err |-> e, candidates |-> FALSE, text |-> FALSE, json |-> "none"] :
        e \in {"ServerError", "TimeoutError", "ClientError"} }
    \cup { [err |-> "none", candidates |-> FALSE, text |-> FALSE, json |-> "none"],
           [err |-> "none", candidates |-> TRUE, text |-> FALSE, json |-> "none"] }
    \cup { [err |-> "none", candidates |-> TRUE, text |-> TRUE, json |-> j] :
             j \in DOMAIN JsonTable }

\* gemini.py:152-264: the error _process_response raises, or the plan
process_response(o) ==
    IF ~o.candidates \/ ~o.text
    THEN [error |-> "GeminiResponseError", plan |-> 0]
    ELSE IF o.json = "none"
    THEN [error |-> "InvalidJSONError", plan |-> 0]
    ELSE LET v == JsonTable[o.json] IN
         IF ~v.is_object
         THEN [error |-> "InvalidQueryPlanError", plan |-> 0]
         ELSE IF v.databases # "list" \/ v.queries # "list"
         THEN [error |-> "InvalidQueryPlanError", plan |-> 0]
         ELSE IF v.plan = 0
         THEN [error |-> "InvalidQueryPlanError", plan |-> 0]
         ELSE [error |-> "none", plan |-> v.plan]

\* The exception kinds that are instances of InvalidQueryPlanError.  The
\* error kinds of the synthesizer (InvalidJSON, InvalidPlan, NoCandidates,
\* NoTextContent, ModelUnavailable) are distinct kinds, each with its own
\* handler in api/error_handlers.py:77-91.
InvalidQueryPlanErrorKinds == {"InvalidQueryPlanError"}

\* a retry loop that gives up one attempt early
retry_decisionShort(attempt, kind) ==
    IF kind \in retry_on /\ attempt + 1 < max_retries THEN "retry" ELSE "raise"

\* retry.py:45-70: an exception outside `exceptions` propagates, one
\* caught at attempt max_retries is re-raised, any other is slept on and
\* the call repeated.
retry_decision(attempt, kind) ==
    IF kind \in retry_on /\ attempt < max_retries THEN "retry" ELSE "raise"

\* every error of one model moves on to the next model
on_model_errorAlwaysFallback(kind) == "next_model"

\* gemini.py:129-143: InvalidQueryPlanError is re-raised at once, any
\* other exception moves on to the next model.
on_model_error(kind) ==
    IF kind \in InvalidQueryPlanErrorKinds THEN "raise" ELSE "next_model"

NoResult == [data |-> <<>>, rows_returned |-> -1, plan |-> 0]

\* a dry-run response that reports the plan's sub-queries as rows
build_dry_run_responseCounted(plan) ==
    [data |-> <<>>, rows_returned |-> Len(PlanTable[plan].queries), plan |-> plan]

\* query_service.py:207-221
build_dry_run_response(plan) ==
    [data |-> <<>>, rows_returned |-> 0, plan |-> plan]

ReqInit ==
    /\ rq \in [dry_run : BOOLEAN]
    /\ rmodel \in {"gemini-2.0-flash-exp", FlashModel}
    /\ ravail \in SUBSET DbNames
    /\ rverdict \in {"safe", "unsafe"}
    /\ rpc = "schemas"
    /\ rmidx = 1
    /\ rattempt = 0
    /\ rcalls = <<>>
    /\ rplan = 0
    /\ rresult = NoResult
    /\ rerror = "none"
    /\ rintrospect = 0
    /\ rvalidate = 0
    /\ rexecute = 0

Fail(kind) ==
    /\ rpc' = "failed"
    /\ rerror' = kind

\* query_service.py:41 with factory.py:238-242: the tenant's adapters
\* (RuntimeError when the factory could create none), then one
\* introspect_schema call per adapter.
GetAllSchemas ==
    /\ rpc = "schemas"
    /\ IF ravail = {}
       THEN Fail("RuntimeError") /\ UNCHANGED rintrospect
       ELSE /\ rintrospect' = Cardinality(ravail)
            /\ rpc' = "synth"
            /\ UNCHANGED rerror
    /\ UNCHANGED <<rq, rmodel, ravail, rverdict, rmidx, rattempt, rcalls,
                   rplan, rresult, rvalidate, rexecute>>
    /\ UNCHANGED <<factoryVars, execVars, valVars, retryVars, mongoVars,
                 maskVars, restVars>>

\* gemini.py:138-150: the loop moves to the next model, or raises
\* GeminiAPIError after the last one.
NextModel ==
    IF rmidx < Len(models_to_try(rmodel))
    THEN /\ rmidx' = rmidx + 1
         /\ rattempt' = 0
         /\ UNCHANGED <<rpc, rerror, rplan>>
    ELSE /\ Fail("GeminiAPIError")
         /\ UNCHANGED <<rmidx, rattempt, rplan>>

\* gemini.py:100-143 with retry.py:45-70: one generate_content call of
\* the current model and what the retry loop and the model loop do with
\* its outcome.
ModelCall(o) ==
    /\ rpc = "synth"
    /\ rcalls' = Append(rcalls, [model |-> models_to_try(rmodel)[rmidx], o |-> o])
    /\ IF o.err # "none"
       THEN IF retry_decision(rattempt, o.err) = "retry"
            THEN /\ rattempt' = rattempt + 1
                 /\ UNCHANGED <<rpc, rerror, rplan, rmidx>>
            ELSE NextModel
       ELSE LET pr == process_response(o) IN
            IF pr.error = "none"
            THEN /\ rplan' = pr.plan
                 /\ rpc' = "planned"
                 /\ UNCHANGED <<rerror, rmidx, rattempt>>
            ELSE IF on_model_error(pr.error) = "raise"
            THEN Fail(pr.error) /\ UNCHANGED <<rmidx, rattempt, rplan>>
            ELSE NextModel
    /\ UNCHANGED <<rq, rmodel, ravail, rverdict, rresult, rintrospect,
                   rvalidate, rexecute>>
    /\ UNCHANGED <<factoryVars, execVars, valVars, retryVars, mongoVars,
                 maskVars, restVars>>

\* query_service.py:50-51: a dry run returns the plan without executing
DryRunReturn ==
    /\ rpc = "planned"
    /\ rq.dry_run
    /\ rresult' = build_dry_run_response(rplan)
    /\ rpc' = "done"
    /\ UNCHANGED <<rq, rmodel, ravail, rverdict, rmidx, rattempt, rcalls,
                   rplan, rerror, rintrospect, rvalidate, rexecute>>
    /\ UNCHANGED <<factoryVars, execVars, valVars, retryVars, mongoVars,
                 maskVars, restVars>>

\* query_service.py:54: `request.skip_validation` is read, but
\* QueryRequest (models/query.py:8-19) declares intent, context and
\* dry_run only, so the read raises AttributeError: the validation loop
\* and the execution below it are never reached.
CheckSkipValidation ==
    /\ rpc = "planned"
    /\ ~rq.dry_run
    /\ Fail("AttributeError")
    /\ UNCHANGED <<rq, rmodel, ravail, rverdict, rmidx, rattempt, rcalls,
                   rplan, rresult, rintrospect, rvalidate, rexecute>>
    /\ UNCHANGED <<factoryVars, execVars, valVars, retryVars, mongoVars,
                 maskVars, restVars>>

\* no request is being handled
ReqOff ==
    /\ rq = [dry_run |-> FALSE]
    /\ rmodel = FlashModel
    /\ ravail = {}
    /\ rverdict = "safe"
    /\ rpc = "off"
    /\ rmidx = 1
    /\ rattempt = 0
    /\ rcalls = <<>>
    /\ rplan = 0
    /\ rresult = NoResult
    /\ rerror = "none"
    /\ rintrospect = 0
    /\ rvalidate = 0
    /\ rexecute = 0

ReqNext ==
    \/ GetAllSchemas
    \/ \E o \in CallOutcomes : ModelCall(o)
    \/ DryRunReturn
    \/ CheckSkipValidation

(***************************************************************************)
(* Plan validator (core/gemini.py, validate_query)                         *)
(***************************************************************************)
\* The JSON values a validator response text can carry, by what the
\* caller looks at: "none" is a text from which no JSON can be extracted.
VerdictTable ==
    [j \in {"verdict_safe", "verdict_unsafe", "verdict_no_safe", "none"} |->
        CASE j = "verdict_safe" ->
               [parsed |-> TRUE, has_safe |-> TRUE, safe |-> TRUE,
                severity |-> "low"]
          [] j = "verdict_unsafe" ->
               [parsed |-> TRUE, has_safe |-> TRUE, safe |-> FALSE,
                severity |-> "medium"]
          [] j = "verdict_no_safe" ->
               [parsed |-> TRUE, has_safe |-> FALSE, safe |-> FALSE,
                severity |-> "low"]
          [] OTHER ->
               [parsed |-> FALSE, has_safe |-> FALSE, safe |-> FALSE,
                severity |-> "none"]]

\* what one generate_content call of the validator can end in
ValidationOutcomes ==
    { [err |-> e, candidates |-> FALSE, text |-> FALSE, json |-> "none"] :
        e \in {"ServerError", "TimeoutError", "ClientError"} }
    \cup { [err |-> "none", candidates |-> FALSE, text |-> FALSE, json |-> "none"],
           [err |-> "none", candidates |-> TRUE, text |-> FALSE, json |-> "none"] }
    \cup { [err |-> "none", candidates |-> TRUE, text |-> TRUE, json |-> j] :
             j \in DOMAIN VerdictTable }

NoVerdict == [returned |-> FALSE, has_safe |-> FALSE, safe |-> FALSE,
              severity |-> "none", from |-> "none"]

\* gemini.py:380-384: the verdict returned when the text cannot be parsed
ParseFailureVerdict ==
    [returned |-> TRUE, has_safe |-> TRUE, safe |-> FALSE,
     severity |-> "high", from |-> "default"]

\* gemini.py:357-384: what validate_query makes of the response it kept:
\* the error it raises, or the verdict it returns
validation_result(o) ==
    IF ~o.candidates \/ ~o.text
    THEN [error |-> "GeminiResponseError", verdict |-> NoVerdict]
    ELSE IF ~VerdictTable[o.json].parsed
    THEN [error |-> "none", verdict |-> ParseFailureVerdict]
    ELSE [error |-> "none",
          verdict |-> [returned |-> TRUE,
                       has_safe |-> VerdictTable[o.json].has_safe,
                       safe |-> VerdictTable[o.json].safe,
                       severity |-> VerdictTable[o.json].severity,
                       from |-> o.json]]

ValInit ==
    /\ vmodel \in {"gemini-2.0-flash-exp", FlashModel}
    /\ vpc = "call"
    /\ vmidx = 1
    /\ vattempt = 0
    /\ vcalls = <<>>
    /\ vlast = "none"
    /\ vresult = NoVerdict
    /\ verror = "none"

\* validate_query is not running
ValOff ==
    /\ vmodel = FlashModel
    /\ vpc = "off"
    /\ vmidx = 1
    /\ vattempt = 0
    /\ vcalls = <<>>
    /\ vlast = "none"
    /\ vresult = NoVerdict
    /\ verror = "none"

\* gemini.py:346-384: the code after the model loop.  last_exception is
\* never reset, so it is still set when an earlier model failed and a
\* later one answered.
AfterModels(last, o) ==
    IF last # "none"
    THEN /\ vpc' = "raised"
         /\ verror' = "GeminiAPIError"
         /\ UNCHANGED vresult
    ELSE LET vr == validation_result(o) IN
         IF vr.error # "none"
         THEN /\ vpc' = "raised"
              /\ verror' = vr.error
              /\ UNCHANGED vresult
         ELSE /\ vpc' = "returned"
              /\ vresult' = vr.verdict
              /\ UNCHANGED verror

\* gemini.py:309-355 with retry.py:45-70: one generate_content call of the
\* current model, what the retry loop and the model loop do with its
\* outcome and, when the loop is left, the rest of validate_query.
ValidateCall(o) ==
    /\ vpc = "call"
    /\ vcalls' = Append(vcalls, [model |-> models_to_try(vmodel)[vmidx], o |-> o])
    /\ IF o.err = "none"
       THEN /\ AfterModels(vlast, o)
            /\ UNCHANGED <<vmidx, vattempt, vlast>>
       ELSE IF retry_decision(vattempt, o.err) = "retry"
       THEN /\ vattempt' = vattempt + 1
            /\ UNCHANGED <<vpc, vmidx, vlast, vresult, verror>>
       ELSE /\ vlast' = o.err
            /\ IF vmidx < Len(models_to_try(vmodel))
               THEN /\ vmidx' = vmidx + 1
                    /\ vattempt' = 0
                    /\ UNCHANGED <<vpc, vresult, verror>>
               ELSE /\ AfterModels(o.err, o)
                    /\ UNCHANGED <<vmidx, vattempt>>
    /\ UNCHANGED vmodel
    /\ UNCHANGED <<factoryVars, execVars, reqVars, retryVars, mongoVars,
                 maskVars, restVars>>

ValNext == \E o \in ValidationOutcomes : ValidateCall(o)

(***************************************************************************)
(* Retry with exponential backoff (core/retry.py)                          *)
(***************************************************************************)
\* largest max_retries argument explored
MaxRetriesArg == 3

\* the exception kinds func raises in the runs explored
FuncErrors == {"ConnectionError", "ValueError"}

RECURSIVE Pow(_, _)
\* exponential_base**attempt
Pow(b, a) == IF a = 0 THEN 1 ELSE b * Pow(b, a - 1)

Min(a, b) == IF a <= b THEN a ELSE b

\* a delay that is not capped
backoff_delayUncapped(p, attempt) ==
    p.initial_delay * Pow(p.exponential_base, attempt)

\* retry.py:58: the delay before jitter
backoff_delay(p, attempt) ==
    Min(p.initial_delay * Pow(p.exponential_base, attempt), p.max_delay)

\* retry.py:61-62: delay * (0.5 + random.random()), in half time units,
\* for a random number at the low end, in the middle and at the high end
JitterHalves == {1, 2, 3}

\* a loop that runs one iteration more
backoff_stepExtra(p, attempt, outcome) ==
    IF outcome = "ok" THEN "return"
    ELSE IF outcome \notin p.exceptions THEN "propagate"
    ELSE IF attempt = p.max_retries + 1 THEN "raise_last"
    ELSE "sleep"

\* retry.py:45-70: what one iteration of the loop does with the outcome of
\* func: return its result, let an exception outside `exceptions`
\* propagate, re-raise at attempt max_retries, or sleep and go on.
backoff_step(p, attempt, outcome) ==
    IF outcome = "ok" THEN "return"
    ELSE IF outcome \notin p.exceptions THEN "propagate"
    ELSE IF attempt = p.max_retries THEN "raise_last"
    ELSE "sleep"

RetryInit ==
    /\ tp \in [max_retries : 0..MaxRetriesArg,
                initial_delay : {1, 2},
                exponential_base : {1, 2, 3},
                max_delay : {1, 5, 10},
                jitter : BOOLEAN,
                exceptions : {{"ConnectionError"}, FuncErrors}]
    /\ tpc = "run"
    /\ tattempt = 0
    /\ tlog = <<>>
    /\ tsleeps = <<>>
    /\ terror = "none"

\* no retry call is running
RetryOff ==
    /\ tp = [max_retries |-> 0, initial_delay |-> 1, exponential_base |-> 1,
             max_delay |-> 1, jitter |-> FALSE, exceptions |-> {}]
    /\ tpc = "off"
    /\ tattempt = 0
    /\ tlog = <<>>
    /\ tsleeps = <<>>
    /\ terror = "none"

\* retry.py:44-70: one iteration of `for attempt in range(max_retries + 1)`:
\* func is invoked and ends in `outcome`; when the iteration sleeps, the
\* sleep is the jittered or plain delay (h = 2 is the plain delay).  With
\* max_retries >= 0 the loop always ends in a return or a raise, so the
\* statement after it (retry.py:72-73) is not reached.
Iterate(outcome, h) ==
    /\ tpc = "run"
    /\ tattempt <= tp.max_retries
    /\ h \in (IF tp.jitter THEN JitterHalves ELSE {2})
    /\ tlog' = Append(tlog, outcome)
    /\ LET step == backoff_step(tp, tattempt, outcome) IN
       CASE step = "return" ->
              /\ tpc' = "returned"
              /\ UNCHANGED <<tattempt, tsleeps, terror>>
         [] step \in {"propagate", "raise_last"} ->
              /\ tpc' = "raised"
              /\ terror' = outcome
              /\ UNCHANGED <<tattempt, tsleeps>>
         [] OTHER ->
              /\ tsleeps' = Append(tsleeps, backoff_delay(tp, tattempt) * h)
              /\ tattempt' = tattempt + 1
              /\ UNCHANGED <<tpc, terror>>
    /\ UNCHANGED tp
    /\ UNCHANGED <<factoryVars, execVars, reqVars, valVars, mongoVars,
                 maskVars, restVars>>

RetryNext ==
    \/ \E outcome \in {"ok"} \cup FuncErrors, h \in JitterHalves :
          Iterate(outcome, h)

(***************************************************************************)
(* MongoDBAdapter.execute called directly                                  *)
(***************************************************************************)
\* the values explored for the `collection` argument
CollectionArgs ==
    { StrValue(n) : n \in Names }
    \cup { NoneValue, ListValue(<<"a">>),
           [type |-> "int", chars |-> <<>>],
           [type |-> "zero", chars |-> <<>>],
           [type |-> "emptylist", chars |-> <<>>] }

\* the names explored for the "collection" key of the first stage
FirstStageNames == { <<>>, <<"a">>, <<"$">>, <<"a", "NL">> }

MongoInit ==
    /\ mcoll \in CollectionArgs
    /\ mpipe \in Pipelines(FirstStageNames)
    /\ mdocs \in { <<1>>, [k \in 1..(MaxRowsCap + 1) |-> k] }
    /\ mpc = "call"
    /\ mdriver = NoDriverCall
    /\ mresult = <<>>
    /\ merror = "none"

\* no direct adapter call is made
MongoOff ==
    /\ mcoll = NoneValue
    /\ mpipe = [empty |-> TRUE, first_collection |-> AbsentValue,
                has_limit |-> FALSE, stages |-> "absent"]
    /\ mdocs = <<>>
    /\ mpc = "off"
    /\ mdriver = NoDriverCall
    /\ mresult = <<>>
    /\ merror = "none"

\* mongodb.py:157-219
Execute ==
    /\ mpc = "call"
    /\ LET res == mongo_execute(mpipe, mcoll, mdocs, MaxRowsCap) IN
          /\ mdriver' = res.driver
          /\ mresult' = res.docs
          /\ merror' = res.error
          /\ mpc' = IF res.error = "none" THEN "returned" ELSE "raised"
    /\ UNCHANGED <<mcoll, mpipe, mdocs>>
    /\ UNCHANGED <<factoryVars, execVars, reqVars, valVars, retryVars,
                 maskVars, restVars>>

MongoNext == Execute

(***************************************************************************)
(* Field masking (services/query_service.py, _apply_field_masking)         *)
(***************************************************************************)
\* most rows in a result handed to the masking
MaxResultRows == 2

Masked == "***MASKED***"

FieldNames == {"id", "email", "password"}
FieldValues == {"v", Masked}

\* the rows explored: every subset of the fields, with every value
ResultRows == UNION { [D -> FieldValues] : D \in SUBSET FieldNames }

\* field_masks values explored (api/deps.py:19-46 and variations): no
\* masks, one table, a table with an empty list, two tables
FieldMasks ==
    { [t \in {} |-> {}],
      [t \in {"users"} |-> {"password"}],
      [t \in {"users"} |-> {}],
      [t \in {"users"} |-> {"password", "email"}],
      [t \in {"users", "orders"} |->
          IF t = "users" THEN {"password"} ELSE {"email", "phone"}] }

\* a masking that writes the mask also for fields the row does not have
mask_rowAdds(row, masks) ==
    LET fields == UNION { masks[t] : t \in DOMAIN masks } IN
    [f \in DOMAIN row \cup fields |->
        IF f \in fields THEN Masked ELSE row[f]]

\* query_service.py:194-201: the copy of one row with every field that a
\* mask list of any table names, and that the row has, replaced
mask_row(row, masks) ==
    LET fields == UNION { masks[t] : t \in DOMAIN masks } IN
    [f \in DOMAIN row |-> IF f \in fields THEN Masked ELSE row[f]]

\* query_service.py:185-205
apply_field_masking(results, masks) ==
    IF DOMAIN masks = {} THEN results
    ELSE [i \in 1..Len(results) |-> mask_row(results[i], masks)]

MaskInit ==
    /\ kmasks \in FieldMasks
    /\ krows \in UNION { [1..n -> ResultRows] : n \in 0..MaxResultRows }
    /\ kpc = "start"
    /\ kout = <<>>
    /\ kout2 = <<>>

\* no masking is applied
MaskOff ==
    /\ kmasks = [t \in {} |-> {}]
    /\ krows = <<>>
    /\ kpc = "off"
    /\ kout = <<>>
    /\ kout2 = <<>>

\* the result is masked
Mask ==
    /\ kpc = "start"
    /\ kout' = apply_field_masking(krows, kmasks)
    /\ kpc' = "masked"
    /\ UNCHANGED <<kmasks, krows, kout2>>
    /\ UNCHANGED <<factoryVars, execVars, reqVars, valVars, retryVars,
                   mongoVars, restVars>>

\* the masked result is masked again with the same masks
MaskAgain ==
    /\ kpc = "masked"
    /\ kout2' = apply_field_masking(kout, kmasks)
    /\ kpc' = "remasked"
    /\ UNCHANGED <<kmasks, krows, kout>>
    /\ UNCHANGED <<factoryVars, execVars, reqVars, valVars, retryVars,
                   mongoVars, restVars>>

MaskNext == Mask \/ MaskAgain

(***************************************************************************)
(* Lifecycle of the factory: requests that follow one another, calls       *)
(* cancelled by a timeout, and shutdown (adapters/factory.py, main.py)     *)
(*                                                                         *)
(* The get_adapters_for_account calls of the factory section run together  *)
(* with one AdapterFactory.shutdown.  A call slot whose call has ended     *)
(* takes the next request.  asyncio.wait_for around a call (main.py:459)   *)
(* cancels it at the connect it is suspended in.                           *)
(***************************************************************************)
\* requests that may follow a finished one
MaxRecycles == 1

\* the project keys the requests of this section come with: a project with
\* both databases and a project with no database URL
LifecycleKeys == {"key_a1", "key_c"}

\* connect succeeds or fails
LifecycleOutcomes == {"ok", "connection"}

\* the call slots that take requests in this section: two calls overlap
\* with each other and with shutdown, further slots of Calls stay idle
LifecycleCalls == Calls \cap {1, 2}

\* what one adapter.disconnect() task ends in
DisconnectOutcomes == {"done", "failed"}

ShutInit ==
    /\ spc = "idle"
    /\ stasks = <<>>
    /\ sidx = 0
    /\ sdisc = {}
    /\ srecycled = 0

\* no shutdown, no further requests
ShutOff ==
    /\ spc = "off"
    /\ stasks = <<>>
    /\ sidx = 0
    /\ sdisc = {}
    /\ srecycled = 0

\* the adapters the cache holds
CachedAdapters ==
    UNION {{cache[a].postgres, cache[a].mongodb} : a \in AccountIds} \ {0}

RECURSIVE InOrder(_)
\* the adapters of a set in the order they were created
InOrder(S) ==
    IF S = {} THEN <<>>
    ELSE LET m == CHOOSE x \in S : \A y \in S : x <= y
         IN <<m>> \o InOrder(S \ {m})

\* a wait loop that lets the exception of a disconnect task escape
after_waitRaises(state) ==
    IF state = "failed" THEN "raise" ELSE "next"

\* factory.py:192-199: whatever the awaited task did (returned, raised,
\* or was cancelled by the 2 s timeout), the loop goes on to the next
after_wait(state) == "next"

\* the call has ended and its slot takes the next request
CallEnds(c) ==
    /\ fpc[c] \in {"returned", "returned_cached", "no_adapters", "cancelled"}
    /\ srecycled < MaxRecycles
    /\ srecycled' = srecycled + 1
    /\ fpc' = [fpc EXCEPT ![c] = "idle"]
    /\ flocal' = [flocal EXCEPT ![c] = EmptyDict]
    /\ foutcome' = [foutcome EXCEPT ![c] = NoOutcome]
    /\ fret' = [fret EXCEPT ![c] = EmptyDict]
    /\ UNCHANGED <<adapters, cache, fkey>>
    /\ UNCHANGED <<spc, stasks, sidx, sdisc>>
    /\ UNCHANGED outsideFactory

\* main.py:457-465: the timeout of asyncio.wait_for cancels the call while
\* it is suspended in a connect; CancelledError passes the handlers of
\* factory.py:77-92 and 119-130, and the local dict of the call is dropped
Cancel(c) ==
    /\ fpc[c] \in {"postgres", "mongo"}
    /\ fpc' = [fpc EXCEPT ![c] = "cancelled"]
    /\ UNCHANGED <<adapters, cache, fkey, flocal, foutcome, fret>>
    /\ UNCHANGED shutVars
    /\ UNCHANGED outsideFactory

\* factory.py:201: self._adapters_by_account.clear()
clear == [a \in AccountIds |-> NoEntry]

\* factory.py:182-189: a disconnect task is created for every adapter of
\* every account in the cache; with no adapter the loops do not run and
\* shutdown clears the cache and returns
ShutdownStart ==
    /\ spc = "idle"
    /\ IF CachedAdapters = {}
       THEN /\ cache' = clear
            /\ spc' = "returned"
            /\ UNCHANGED <<stasks, sidx>>
       ELSE /\ stasks' = [i \in 1..Cardinality(CachedAdapters) |->
                            [adapter |-> InOrder(CachedAdapters)[i],
                             state |-> "scheduled"]]
            /\ sidx' = 1
            /\ spc' = "waiting"
            /\ UNCHANGED cache
    /\ UNCHANGED <<adapters, fpc, fkey, flocal, foutcome, fret>>
    /\ UNCHANGED <<sdisc, srecycled>>
    /\ UNCHANGED outsideFactory

\* the event loop starts a disconnect task: adapter.disconnect() is invoked
TaskStart(i) ==
    /\ spc = "waiting"
    /\ i \in 1..Len(stasks)
    /\ stasks[i].state = "scheduled"
    /\ stasks' = [stasks EXCEPT ![i].state = "running"]
    /\ sdisc' = sdisc \cup {stasks[i].adapter}
    /\ UNCHANGED <<spc, sidx, srecycled>>
    /\ UNCHANGED factoryVars
    /\ UNCHANGED outsideFactory

\* a disconnect task returns or raises
DisconnectEnd(i, o) ==
    /\ spc = "waiting"
    /\ i \in 1..Len(stasks)
    /\ stasks[i].state = "running"
    /\ stasks' = [stasks EXCEPT ![i].state = o]
    /\ UNCHANGED <<spc, sidx, sdisc, srecycled>>
    /\ UNCHANGED factoryVars
    /\ UNCHANGED outsideFactory

\* factory.py:192-202: `await asyncio.wait_for(task, timeout=2.0)` ends:
\* the task has returned, has raised, or is still running after 2 s and is
\* cancelled.  All tasks created before the first await have been started
\* by then.  After the last task the cache is cleared and shutdown returns.
Wait ==
    /\ spc = "waiting"
    /\ \A i \in 1..Len(stasks) : stasks[i].state # "scheduled"
    /\ stasks' = [stasks EXCEPT ![sidx].state =
                    IF @ = "running" THEN "cancelled" ELSE @]
    /\ IF after_wait(stasks[sidx].state) = "raise"
       THEN /\ spc' = "raised"
            /\ UNCHANGED <<sidx, cache>>
       ELSE IF sidx = Len(stasks)
       THEN /\ cache' = clear
            /\ spc' = "returned"
            /\ UNCHANGED sidx
       ELSE /\ sidx' = sidx + 1
            /\ UNCHANGED <<spc, cache>>
    /\ UNCHANGED <<adapters, fpc, fkey, flocal, foutcome, fret>>
    /\ UNCHANGED <<sdisc, srecycled>>
    /\ UNCHANGED outsideFactory

ShutdownStep ==
    \/ \E i \in 1..Len(stasks) : TaskStart(i)
    \/ Wait

LifecycleNext ==
    \/ \E c \in LifecycleCalls, key \in LifecycleKeys : GetAdapters(c, key)
    \/ \E c \in LifecycleCalls, o \in LifecycleOutcomes : ConnectPostgres(c, o)
    \/ \E c \in LifecycleCalls, o \in LifecycleOutcomes : ConnectMongo(c, o)
    \/ \E c \in LifecycleCalls : CallEnds(c)
    \/ \E c \in LifecycleCalls : Cancel(c)
    \/ ShutdownStart
    \/ \E i \in 1..Len(stasks), o \in DisconnectOutcomes : DisconnectEnd(i, o)
    \/ ShutdownStep

(***************************************************************************)
(* Schema introspection of the relational adapter (adapters/postgres.py)   *)
(*                                                                         *)
(* NIntro introspect_schema calls run on one PostgresAdapter whose connect *)
(* has succeeded.  Each call is the with_retry wrapper around the body;    *)
(* the calls interleave at their awaits.  The database may change its      *)
(* catalog while they run.  The driver's pool.close() returns once every   *)
(* connection acquired from that pool has been released; a connection the  *)
(* server dropped may or may not have been given back by the driver when   *)
(* the error reaches the adapter.                                          *)
(***************************************************************************)
NIntro == 2
MaxDbVersion == 2
IntroCalls == 1..NIntro

\* postgres.py:104: @with_retry(exceptions=(ConnectionDoesNotExistError,),
\* max_retries=3)
introspect_max_retries == 3

NoSchema == [catalog |-> 0, counted |-> FALSE]

\* what conn.fetch(meta_query) does: rows, ConnectionDoesNotExistError,
\* another exception whose text contains "connection", any other exception
FetchOutcomes == {"rows", "lost", "connection_text", "other"}

\* what the per-table counts do: all counted, one count failed with an
\* ordinary exception (row_count = 0), ConnectionDoesNotExistError
CountOutcomes == {"counted", "count_failed", "lost"}

\* postgres.py:162-172: the handler around conn.fetch reconnects when the
\* exception is a ConnectionDoesNotExistError or its text holds "connection"
reconnects_on(o) == o \in {"lost", "connection_text"}

IntroInit ==
    /\ idb = 1
    /\ ischema = NoSchema
    /\ ipoolgen = 1
    /\ inextgen = 2
    /\ ipc = [c \in IntroCalls |-> "idle"]
    /\ iattempt = [c \in IntroCalls |-> 0]
    /\ ifetches = [c \in IntroCalls |-> 0]
    /\ irebuilds = [c \in IntroCalls |-> 0]
    /\ iheld = [c \in IntroCalls |-> 0]
    /\ iclosing = [c \in IntroCalls |-> 0]
    /\ irows = [c \in IntroCalls |-> 0]
    /\ iret = [c \in IntroCalls |-> NoSchema]
    /\ ierr = [c \in IntroCalls |-> "none"]
    /\ ilate = [c \in IntroCalls |-> FALSE]

\* no introspection runs
IntroOff ==
    /\ idb = 0
    /\ ischema = NoSchema
    /\ ipoolgen = 0
    /\ inextgen = 0
    /\ ipc = <<>>
    /\ iattempt = <<>>
    /\ ifetches = <<>>
    /\ irebuilds = <<>>
    /\ iheld = <<>>
    /\ iclosing = <<>>
    /\ irows = <<>>
    /\ iret = <<>>
    /\ ierr = <<>>
    /\ ilate = <<>>

\* the exception leaves the call: `async with` gives the connection back
\* and nothing catches it
Surface(c, kind) ==
    /\ ipc' = [ipc EXCEPT ![c] = "raised"]
    /\ ierr' = [ierr EXCEPT ![c] = kind]
    /\ iheld' = [iheld EXCEPT ![c] = 0]

\* a table is created or dropped in the database
DbChange ==
    /\ idb < MaxDbVersion
    /\ \E c \in IntroCalls : ipc[c] \notin {"returned", "raised"}
    /\ idb' = idb + 1
    /\ UNCHANGED <<ischema, ipoolgen, inextgen, ipc, iattempt, ifetches,
                   irebuilds, iheld, iclosing, irows, iret, ierr, ilate>>
    /\ UNCHANGED outsideIntro

\* a caller calls adapter.introspect_schema()
IntroStart(c) ==
    /\ ipc[c] = "idle"
    /\ ipc' = [ipc EXCEPT ![c] = "body"]
    /\ ilate' = [ilate EXCEPT ![c] = \E d \in IntroCalls : ipc[d] = "returned"]
    /\ UNCHANGED <<idb, ischema, ipoolgen, inextgen, iattempt, ifetches,
                   irebuilds, iheld, iclosing, irows, iret, ierr>>
    /\ UNCHANGED outsideIntro

\* postgres.py:116-158: the cached schema is returned; otherwise the pool
\* is asserted and a connection is acquired from it (the driver refuses a
\* pool that is being closed)
IntroBody(c) ==
    /\ ipc[c] = "body"
    /\ IF ischema # NoSchema
       THEN /\ ipc' = [ipc EXCEPT ![c] = "returned"]
            /\ iret' = [iret EXCEPT ![c] = ischema]
            /\ UNCHANGED <<ierr, iheld>>
       ELSE IF ipoolgen = 0
       THEN Surface(c, "AssertionError") /\ UNCHANGED iret
       ELSE IF \E d \in IntroCalls : iclosing[d] = ipoolgen
       THEN Surface(c, "InterfaceError") /\ UNCHANGED iret
       ELSE /\ ipc' = [ipc EXCEPT ![c] = "fetch"]
            /\ iheld' = [iheld EXCEPT ![c] = ipoolgen]
            /\ UNCHANGED <<ierr, iret>>
    /\ UNCHANGED <<idb, ischema, ipoolgen, inextgen, iattempt, ifetches,
                   irebuilds, iclosing, irows, ilate>>
    /\ UNCHANGED outsideIntro

\* postgres.py:159-172: the catalog query, and the handler around it
IntroFetch(c, o, given_back) ==
    /\ ipc[c] = "fetch"
    /\ ifetches' = [ifetches EXCEPT ![c] = @ + 1]
    /\ IF o = "rows"
       THEN /\ given_back = FALSE
            /\ irows' = [irows EXCEPT ![c] = idb]
            /\ ipc' = [ipc EXCEPT ![c] = "counts"]
            /\ UNCHANGED <<ierr, iheld>>
       ELSE IF reconnects_on(o)
       THEN /\ (o # "lost" => given_back = FALSE)
            /\ ipc' = [ipc EXCEPT ![c] = "inner_reconnect"]
            /\ iheld' = [iheld EXCEPT ![c] = IF given_back THEN 0 ELSE @]
            /\ UNCHANGED <<ierr, irows>>
       ELSE /\ given_back = FALSE
            /\ Surface(c, "Exception")
            /\ UNCHANGED irows
    /\ UNCHANGED <<idb, ischema, ipoolgen, inextgen, iattempt, irebuilds,
                   iclosing, iret, ilate>>
    /\ UNCHANGED outsideIntro

\* postgres.py:97-100: _reconnect_pool starts: `if self.pool:
\* await self.pool.close()`
ReconnectBegin(c) ==
    /\ ipc[c] \in {"inner_reconnect", "outer_reconnect"}
    /\ irebuilds' = [irebuilds EXCEPT ![c] = @ + 1]
    /\ iclosing' = [iclosing EXCEPT ![c] = ipoolgen]
    /\ ipc' = [ipc EXCEPT ![c] =
                 IF ipc[c] = "inner_reconnect" THEN "inner_close"
                                               ELSE "outer_close"]
    /\ UNCHANGED <<idb, ischema, ipoolgen, inextgen, iattempt, ifetches,
                   iheld, irows, iret, ierr, ilate>>
    /\ UNCHANGED outsideIntro

\* what follows a ConnectionDoesNotExistError that leaves the body
\* (retry.py:45-70): another attempt while attempt < max_retries
AfterBodyError(c) ==
    IF iattempt[c] = introspect_max_retries
    THEN /\ ipc' = [ipc EXCEPT ![c] = "raised"]
         /\ ierr' = [ierr EXCEPT ![c] = "ConnectionDoesNotExistError"]
         /\ UNCHANGED iattempt
    ELSE /\ ipc' = [ipc EXCEPT ![c] = "body"]
         /\ iattempt' = [iattempt EXCEPT ![c] = @ + 1]
         /\ UNCHANGED ierr

\* postgres.py:100-102: pool.close() has returned (no connection of that
\* pool is held any more), self.pool = None, then connect() creates a new
\* pool or raises.  After the inner handler's reconnect the
\* ConnectionDoesNotExistError leaves `async with` (postgres.py:169-171)
\* and reaches the outer handler (231-233), which reconnects again; after
\* the outer one it reaches with_retry.
ReconnectEnd(c, connected) ==
    /\ ipc[c] \in {"inner_close", "outer_close"}
    /\ \A d \in IntroCalls : iheld[d] = 0 \/ iheld[d] # iclosing[c]
    /\ iclosing' = [iclosing EXCEPT ![c] = 0]
    /\ IF connected
       THEN /\ ipoolgen' = inextgen
            /\ inextgen' = inextgen + 1
            /\ IF ipc[c] = "inner_close"
               THEN /\ ipc' = [ipc EXCEPT ![c] = "outer_reconnect"]
                    /\ iheld' = [iheld EXCEPT ![c] = 0]
                    /\ UNCHANGED <<ierr, iattempt>>
               ELSE AfterBodyError(c) /\ UNCHANGED iheld
       ELSE /\ ipoolgen' = 0
            /\ Surface(c, "ConnectError")
            /\ UNCHANGED <<inextgen, iattempt>>
    /\ UNCHANGED <<idb, ischema, ifetches, irebuilds, irows, iret, ilate>>
    /\ UNCHANGED outsideIntro

\* postgres.py:174-233: the per-table counts, then the schema is stored
\* and returned; a ConnectionDoesNotExistError of a count is re-raised
IntroCounts(c, o) ==
    /\ ipc[c] = "counts"
    /\ IF o = "lost"
       THEN /\ ipc' = [ipc EXCEPT ![c] = "outer_reconnect"]
            /\ iheld' = [iheld EXCEPT ![c] = 0]
            /\ UNCHANGED <<ischema, iret>>
       ELSE /\ ischema' = [catalog |-> irows[c], counted |-> o = "counted"]
            /\ iret' = [iret EXCEPT ![c] = ischema']
            /\ ipc' = [ipc EXCEPT ![c] = "returned"]
            /\ iheld' = [iheld EXCEPT ![c] = 0]
    /\ UNCHANGED <<idb, ipoolgen, inextgen, iattempt, ifetches, irebuilds,
                   iclosing, irows, ierr, ilate>>
    /\ UNCHANGED outsideIntro

IntroNext ==
    \/ DbChange
    \/ \E c \in IntroCalls :
          \/ IntroStart(c)
          \/ IntroBody(c)
          \/ \E o \in FetchOutcomes, g \in BOOLEAN : IntroFetch(c, o, g)
          \/ ReconnectBegin(c)
          \/ \E k \in BOOLEAN : ReconnectEnd(c, k)
          \/ \E o \in CountOutcomes : IntroCounts(c, o)

(***************************************************************************)
(* The query endpoint and its demo fallback (api/v1/query.py)              *)
(***************************************************************************)
DemoKey == "dbrevel_demo_project_key"

\* what get_account_by_api_key_async does for the demo key
\* (core/accounts.py:56-97): the project is found; it is not found
\* (HTTPException 401); the project store is not initialized
\* (HTTPException 500); the store raises another exception
LookupOutcomes == {"found", "not_found", "no_store", "store_error"}

\* how execute_query ends: a result, ValueError, another exception
ExecOutcomes == {"result", "ValueError", "Exception"}

\* headers a request may carry: none, a known key, an unknown key
HeaderKeys == {"", "key_a1", "key_b", "unknown"}

DemoInit ==
    /\ dkey \in HeaderKeys
    /\ dstore \in [1..2 -> LookupOutcomes]
    /\ dcreated \in BOOLEAN
    /\ dexec \in ExecOutcomes
    /\ dpc = "resolve"
    /\ dtenant = "none"
    /\ dlookups = 0
    /\ densures = 0
    /\ dstatus = 0

\* no request to the endpoint
DemoOff ==
    /\ dkey = ""
    /\ dstore = <<>>
    /\ dcreated = FALSE
    /\ dexec = "none"
    /\ dpc = "off"
    /\ dtenant = "none"
    /\ dlookups = 0
    /\ densures = 0
    /\ dstatus = 0

\* the handler ends with an HTTP error
Respond(code) ==
    /\ dpc' = "responded"
    /\ dstatus' = code

\* query.py:187-205: after ensure_demo_account returned True the lookup is
\* repeated; when it fails the handler raises 500 inside the inner except;
\* when it succeeds control leaves the inner try and reaches the
\* `raise HTTPException(401)` that closes the outer except block
after_relookup(found) ==
    IF found THEN "http_401" ELSE "http_500"

\* core/accounts.py:100-120: the dependency get_account_config resolves
\* the header: no key gives None, a key is looked up
ResolveTenant ==
    /\ dpc = "resolve"
    /\ IF dkey = ""
       THEN /\ dpc' = "demo_lookup"
            /\ UNCHANGED <<dtenant, dstatus>>
       ELSE IF dkey \in ProjectKeys
       THEN /\ dtenant' = get_account_by_api_key_async(dkey).id
            /\ dpc' = "execute"
            /\ UNCHANGED dstatus
       ELSE Respond(401) /\ UNCHANGED dtenant
    /\ UNCHANGED <<dkey, dstore, dcreated, dexec, dlookups, densures>>
    /\ UNCHANGED outsideDemo

\* query.py:180-185: `if not tenant:` look the demo project up; an
\* HTTPException leads to the on-demand creation, any other exception
\* leaves the handler
DemoLookup ==
    /\ dpc = "demo_lookup"
    /\ dlookups' = dlookups + 1
    /\ LET o == dstore[1] IN
       IF o = "found"
       THEN /\ dtenant' = "demo"
            /\ dpc' = "execute"
            /\ UNCHANGED dstatus
       ELSE IF o \in {"not_found", "no_store"}
       THEN /\ dpc' = "ensure"
            /\ UNCHANGED <<dtenant, dstatus>>
       ELSE Respond(500) /\ UNCHANGED dtenant
    /\ UNCHANGED <<dkey, dstore, dcreated, dexec, densures>>
    /\ UNCHANGED outsideDemo

\* query.py:186-187 and 200-205: ensure_demo_account; False goes to the
\* 401 at the end of the except block
DemoEnsure ==
    /\ dpc = "ensure"
    /\ densures' = densures + 1
    /\ IF dcreated
       THEN dpc' = "relookup" /\ UNCHANGED dstatus
       ELSE Respond(401)
    /\ UNCHANGED <<dkey, dstore, dcreated, dexec, dtenant, dlookups>>
    /\ UNCHANGED outsideDemo

\* query.py:188-205: the repeated lookup and what follows it
DemoRelookup ==
    /\ dpc = "relookup"
    /\ dlookups' = dlookups + 1
    /\ LET o == dstore[2] IN
       IF o = "store_error"
       THEN Respond(500) /\ UNCHANGED dtenant
       ELSE /\ dtenant' = IF o = "found" THEN "demo" ELSE dtenant
            /\ LET next == after_relookup(o = "found") IN
               IF next = "execute"
               THEN dpc' = "execute" /\ UNCHANGED dstatus
               ELSE Respond(IF next = "http_401" THEN 401 ELSE 500)
    /\ UNCHANGED <<dkey, dstore, dcreated, dexec, densures>>
    /\ UNCHANGED outsideDemo

\* query.py:207-230: execute_query under the tenant; ValueError becomes
\* 422, any other exception 500
DemoExecute ==
    /\ dpc = "execute"
    /\ dpc' = "responded"
    /\ dstatus' = CASE dexec = "result" -> 200
                    [] dexec = "ValueError" -> 422
                    [] OTHER -> 500
    /\ UNCHANGED <<dkey, dstore, dcreated, dexec, dtenant, dlookups, densures>>
    /\ UNCHANGED outsideDemo

DemoNext ==
    ResolveTenant \/ DemoLookup \/ DemoEnsure \/ DemoRelookup \/ DemoExecute

(***************************************************************************)
(* The stderr filter (main.py:78-153)                                      *)
(***************************************************************************)
\* Stand-in for max_buffer_lines, 30 in the code (main.py:84)
MaxBufferLines == 2

\* longest sequence of write calls
MaxWrites == 5

\* The texts handed to write():
\*   "line"        ordinary output ending in a newline
\*   "fragment"    ordinary output without newline
\*   "mongo_full"  a whole MongoDB background-reconnection traceback
\*   "mongo_frame" the frame lines of one (pymongo/synchronous/ ...)
\*   "mongo_exc"   its last line (pymongo.errors.AutoReconnect: ...)
\*   "empty"       the empty string
TextKinds == {"line", "fragment", "mongo_full", "mongo_frame", "mongo_exc",
              "empty"}

\* main.py:99-109: the text carries a traceback signature
traceback_signature(t) == t \in {"mongo_full", "mongo_frame"}

\* main.py:111-118: the text carries an exception signature
exception_signature(t) == t \in {"mongo_full", "mongo_exc"}

\* `"\n" in text`
has_newline(t) == t \in {"line", "mongo_full", "mongo_frame", "mongo_exc"}

\* the text belongs to a MongoDB background-reconnection traceback
OfMongoTraceback(t) == t \in {"mongo_full", "mongo_frame", "mongo_exc"}

FilterInit ==
    /\ wseq = <<>>
    /\ wbuf = <<>>
    /\ wsink = <<>>
    /\ wpc = "writing"

\* no filter is installed
FilterOff ==
    /\ wseq = <<>>
    /\ wbuf = <<>>
    /\ wsink = <<>>
    /\ wpc = "off"

\* main.py:86-137: write(text).  The result is the buffer and the sink
\* after the call.
write(buf, sink, text) ==
    IF text = "empty" THEN [buf |-> buf, sink |-> sink]
    ELSE
    LET b1 == Append(buf, text)
        has_mongodb_traceback ==
            \E i \in 1..Len(b1) : traceback_signature(b1[i])
        has_mongodb_exception ==
            \E i \in 1..Len(b1) : exception_signature(b1[i])
    IN IF has_mongodb_traceback /\ has_mongodb_exception
       THEN [buf |-> <<>>, sink |-> sink]
       ELSE
       LET overflow ==
               /\ Len(b1) > MaxBufferLines
               /\ \/ ~has_mongodb_traceback
                  \/ Len(b1) > MaxBufferLines * 2
           b2 == IF overflow THEN <<>> ELSE b1
           s2 == IF overflow THEN sink \o b1 ELSE sink
           on_newline ==
               has_newline(text) /\ ~has_mongodb_traceback /\ Len(b2) > 1
       IN [buf |-> IF on_newline THEN <<>> ELSE b2,
           sink |-> IF on_newline THEN s2 \o b2 ELSE s2]

\* a write call
Write(text) ==
    /\ wpc = "writing"
    /\ Len(wseq) < MaxWrites
    /\ wseq' = Append(wseq, text)
    /\ LET r == write(wbuf, wsink, text)
       IN wbuf' = r.buf /\ wsink' = r.sink
    /\ UNCHANGED wpc
    /\ UNCHANGED outsideFilter

\* main.py:139-148: flush() after the last write
Flush ==
    /\ wpc = "writing"
    /\ wsink' = wsink \o wbuf
    /\ wbuf' = <<>>
    /\ wpc' = "flushed"
    /\ UNCHANGED wseq
    /\ UNCHANGED outsideFilter

FilterNext == (\E t \in TextKinds : Write(t)) \/ Flush

(***************************************************************************)
(* The validation gate of execute_query (query_service.py:53-75)           *)
(*                                                                         *)
(* execute_query from its step 4 on, for a plan of one or two sub-queries. *)
(* The request object is a QueryRequest, which has no attribute            *)
(* skip_validation (models/query.py:8-19), or an object that carries the   *)
(* flag.                                                                   *)
(***************************************************************************)
\* sub-queries of the plans of this section
GateQueries == 2

\* request.skip_validation: the attribute is absent, False or True
SkipValidation == {"absent", "false", "true"}

\* what validate_query does for one sub-query: it raises GeminiAPIError
\* or GeminiResponseError, or returns a verdict
GateAnswers ==
    {[error |-> "GeminiAPIError", verdict |-> NoVerdict]}
    \cup {validation_result(o) : o \in {x \in ValidationOutcomes : x.err = "none"}}

\* query_service.py:59: validation.get("safe", True)
is_safe(verdict) == IF verdict.has_safe THEN verdict.safe ELSE TRUE

GateInit ==
    /\ gskip \in SkipValidation
    /\ ganswers \in UNION {[1..n -> GateAnswers] : n \in 1..GateQueries}
    /\ gpc = "step4"
    /\ gidx = 0
    /\ gvalidated = 0
    /\ gexecute = 0
    /\ gerror = "none"

\* execute_query does not run
GateOff ==
    /\ gskip = "absent"
    /\ ganswers = <<>>
    /\ gpc = "off"
    /\ gidx = 0
    /\ gvalidated = 0
    /\ gexecute = 0
    /\ gerror = "none"

GateFail(kind) ==
    /\ gpc' = "failed"
    /\ gerror' = kind

\* query_service.py:54 and 63-67: `if not request.skip_validation:`
ReadSkipValidation ==
    /\ gpc = "step4"
    /\ IF gskip = "absent"
       THEN GateFail("AttributeError") /\ UNCHANGED gidx
       ELSE IF gskip = "true"
       THEN gpc' = "step5" /\ UNCHANGED <<gidx, gerror>>
       ELSE gpc' = "validating" /\ gidx' = 1 /\ UNCHANGED gerror
    /\ UNCHANGED <<gskip, ganswers, gvalidated, gexecute>>
    /\ UNCHANGED outsideGate

\* query_service.py:55-62: one turn of the loop over plan.queries
ValidateQuery ==
    /\ gpc = "validating"
    /\ gvalidated' = gvalidated + 1
    /\ LET a == ganswers[gidx] IN
       IF a.error # "none"
       THEN GateFail(a.error) /\ UNCHANGED gidx
       ELSE IF ~is_safe(a.verdict)
       THEN GateFail("QueryValidationError") /\ UNCHANGED gidx
       ELSE IF gidx = Len(ganswers)
       THEN gpc' = "step5" /\ UNCHANGED <<gidx, gerror>>
       ELSE gidx' = gidx + 1 /\ UNCHANGED <<gpc, gerror>>
    /\ UNCHANGED <<gskip, ganswers, gexecute>>
    /\ UNCHANGED outsideGate

\* query_service.py:69-75: the plan is executed, one adapter execute call
\* per sub-query
ExecutePlan ==
    /\ gpc = "step5"
    /\ gexecute' = Len(ganswers)
    /\ gpc' = "executed"
    /\ UNCHANGED <<gskip, ganswers, gidx, gvalidated, gerror>>
    /\ UNCHANGED outsideGate

GateNext == ReadSkipValidation \/ ValidateQuery \/ ExecutePlan

\* nothing of the sections after the lifecycle runs
TailOff == DemoOff /\ FilterOff /\ GateOff

\* nothing of the later sections runs
RestOff == IntroOff /\ ShutOff /\ TailOff

\* nothing of the earlier sections runs
CoreOff ==
    FactoryOff /\ ExecOff /\ ReqOff /\ ValOff /\ RetryOff /\ MongoOff /\ MaskOff

(***************************************************************************)
(* Specifications                                                          *)
(***************************************************************************)
InitFactory ==
    FactoryInit /\ ExecOff /\ ReqOff /\ ValOff /\ RetryOff /\ MongoOff /\ MaskOff
    /\ RestOff

SpecFactory == InitFactory /\ [][FactoryNext]_vars

InitExec ==
    ExecInit /\ FactoryOff /\ ReqOff /\ ValOff /\ RetryOff /\ MongoOff /\ MaskOff
    /\ RestOff

SpecExec == InitExec /\ [][ExecNext]_vars

Init ==
    ReqInit /\ FactoryOff /\ ExecOff /\ ValOff /\ RetryOff /\ MongoOff /\ MaskOff
    /\ RestOff

Next == ReqNext

Spec == Init /\ [][Next]_vars

InitValidate ==
    ValInit /\ FactoryOff /\ ExecOff /\ ReqOff /\ RetryOff /\ MongoOff /\ MaskOff
    /\ RestOff

SpecValidate == InitValidate /\ [][ValNext]_vars

InitRetry ==
    RetryInit /\ FactoryOff /\ ExecOff /\ ReqOff /\ ValOff /\ MongoOff /\ MaskOff
    /\ RestOff

SpecRetry == InitRetry /\ [][RetryNext]_vars

InitMongo ==
    MongoInit /\ FactoryOff /\ ExecOff /\ ReqOff /\ ValOff /\ RetryOff /\ MaskOff
    /\ RestOff

SpecMongo == InitMongo /\ [][MongoNext]_vars

InitMask ==
    MaskInit /\ FactoryOff /\ ExecOff /\ ReqOff /\ ValOff /\ RetryOff /\ MongoOff
    /\ RestOff

SpecMask == InitMask /\ [][MaskNext]_vars

InitIntrospect == IntroInit /\ CoreOff /\ ShutOff /\ TailOff

SpecIntrospect == InitIntrospect /\ [][IntroNext]_vars

InitLifecycle ==
    FactoryInit /\ ShutInit /\ ExecOff /\ ReqOff /\ ValOff /\ RetryOff
    /\ MongoOff /\ MaskOff /\ IntroOff /\ TailOff

SpecLifecycle == InitLifecycle /\ [][LifecycleNext]_vars

InitDemo ==
    DemoInit /\ CoreOff /\ IntroOff /\ ShutOff /\ FilterOff /\ GateOff

InitFilter ==
    FilterInit /\ CoreOff /\ IntroOff /\ ShutOff /\ DemoOff /\ GateOff

InitGate ==
    GateInit /\ CoreOff /\ IntroOff /\ ShutOff /\ DemoOff /\ FilterOff

SpecGate == InitGate /\ [][GateNext]_vars

SpecFilter == InitFilter /\ [][FilterNext]_vars

SpecDemo == InitDemo /\ [][DemoNext]_vars

\* the event loop runs every task that is ready and fires every timer:
\* a started shutdown keeps taking its steps
SpecLifecycleFair == SpecLifecycle /\ WF_vars(ShutdownStep)

(***************************************************************************)
(* Properties of the adapter factory (SpecFactory)                         *)
(***************************************************************************)
Returned(c) == fpc[c] \in {"returned", "returned_cached"}
Creating(c) == fpc[c] \in {"postgres", "mongo"}

\* C1: the adapters a call returns for a request made under a project key
\* are connected to that project's own database URLs, also when another
\* project of the same parent account has been served before.
C1_ProjectIsolation ==
    \A c \in Calls : Returned(c) =>
        \A db \in DbNames : fret[c][db] # 0 =>
            adapters[fret[c][db]].url
                = decrypt_database_url(ConfiguredUrl(Account(c), db))

\* C2: calls for the same cold account are single-flight: at most one
\* creation is in progress per account, and the calls of one account
\* return the same adapter instances.
C2_SingleFlight ==
    \A c1, c2 \in Calls :
        (c1 # c2 /\ Account(c1).id = Account(c2).id) =>
            /\ ~(Creating(c1) /\ Creating(c2))
            /\ (Returned(c1) /\ Returned(c2)) => fret[c1] = fret[c2]

\* C3: a call that found its account uncached attempts every configured
\* database, returns exactly the adapters whose connect succeeded, under
\* the keys "postgres" and "mongodb", and fails with NoAdapters exactly
\* when none succeeded.
C3_PartialConnectivity ==
    \A c \in Calls : fpc[c] \in {"returned", "no_adapters"} =>
        /\ \A db \in DbNames :
              ConfiguredUrl(Account(c), db) # "" => foutcome[c][db] # "none"
        /\ (fpc[c] = "no_adapters") <=>
              (\A db \in DbNames : foutcome[c][db] # "ok")
        /\ fpc[c] = "returned" =>
              \A db \in DbNames :
                 /\ (fret[c][db] # 0) <=> (foutcome[c][db] = "ok")
                 /\ fret[c][db] # 0 => adapters[fret[c][db]].db = db

\* C3 witness: PostgreSQL timed out, MongoDB was still attempted and is
\* the one adapter returned.
C3_Witness ==
    \E c \in Calls :
        /\ fpc[c] = "returned"
        /\ foutcome[c].postgres = "timeout"
        /\ foutcome[c].mongodb = "ok"
        /\ fret[c].postgres = 0 /\ fret[c].mongodb # 0

(***************************************************************************)
(* Properties of the executor (SpecExec)                                   *)
(***************************************************************************)
AnyTaskFailed == \E i \in 1..Len(xtasks) : xtasks[i] = "failed"

\* C4: in the fan-out path, once a sub-query's adapter call has failed the
\* executor ends with one error and no data, and when it has returned the
\* error no sibling adapter call is still running.
C4_SiblingsCancelled ==
    (xpath = "cross" /\ AnyTaskFailed /\ xpc \in {"returned", "raised"}) =>
        /\ xpc = "raised" /\ xresult = <<>>
        /\ \A i \in 1..Len(xtasks) : xtasks[i] # "running"

RECURSIVE RowsInPlanOrder(_)
\* the rows the adapters returned for sub-queries 1..n, in index order
RowsInPlanOrder(n) ==
    IF n = 0 THEN <<>> ELSE RowsInPlanOrder(n - 1) \o xout[n]

\* C5: when every sub-query of the fan-out path succeeded, the returned
\* sequence is the concatenation of the sub-queries' outputs in
\* plan.queries order, whatever the order of completion.
C5_PlanOrderMerge ==
    (xpath = "cross" /\ xpc = "returned") =>
        xresult = RowsInPlanOrder(Len(xplan))

\* C5 witness: two or more sub-queries, the second finished first.
C5_Witness ==
    /\ xpath = "cross" /\ xpc = "returned"
    /\ Len(xplan) >= 2
    /\ xorder[1] > xorder[2]
    /\ xresult # <<>>

(***************************************************************************)
(* Properties of the request handler and plan synthesis (Spec)             *)
(***************************************************************************)
Finished == rpc \in {"done", "failed"}

\* C6: a dry-run request whose plan synthesis succeeded ends with empty
\* data, rows_returned 0 and the synthesized plan in the metadata, and
\* neither the validator nor an adapter execute is invoked for it.
C6_DryRun ==
    rq.dry_run =>
        /\ rvalidate = 0 /\ rexecute = 0
        /\ (Finished /\ rplan # 0) =>
              /\ rpc = "done"
              /\ rresult = [data |-> <<>>, rows_returned |-> 0, plan |-> rplan]

\* C6 witness: a dry run of the two-database plan has returned.
C6_Witness ==
    rq.dry_run /\ rpc = "done" /\ rplan = 2 /\ rresult.plan = 2

\* C7: with validation not skipped no adapter execute is called before
\* every sub-query has been validated, and a request whose plan the
\* validator finds unsafe fails with QueryValidation without any adapter
\* execute call.
C7_ValidateBeforeExecute ==
    ~rq.dry_run =>
        /\ rexecute > 0 => rvalidate = Len(PlanTable[rplan].queries)
        /\ (Finished /\ rplan # 0 /\ rverdict = "unsafe") =>
              (rerror = "QueryValidationError" /\ rexecute = 0)

\* C8: a non-dry-run request whose plan is the single relational
\* sub-query and whose validation passes completes successfully with the
\* parsed plan in the metadata, after one adapter execute call.
C8_SingleRelationalSucceeds ==
    (~rq.dry_run /\ Finished /\ rplan = 1 /\ rverdict = "safe") =>
        /\ rpc = "done"
        /\ rresult.plan = rplan
        /\ rexecute = 1

PreferredModel == models_to_try(rmodel)[1]
CallsOf(m) == { k \in 1..Len(rcalls) : rcalls[k].model = m }
Transport == {"ServerError", "TimeoutError"}

\* C9: when every call of the preferred model raised a transport error
\* and the fallback model has been called, the preferred model was called
\* exactly max_retries + 1 times, all before the fallback; when the
\* fallback's first call succeeded it is the fallback's only call and
\* the plan returned is the one parsed from its response.
C9_FallbackAfterRetries ==
    LET pref == CallsOf(PreferredModel)
        fall == CallsOf(FlashModel)
    IN (/\ PreferredModel # FlashModel
        /\ fall # {}
        /\ \A k \in pref : rcalls[k].o.err \in Transport) =>
           /\ pref = 1..(max_retries + 1)
           /\ process_response(rcalls[max_retries + 2].o).error = "none" =>
                 /\ fall = {max_retries + 2}
                 /\ rplan = process_response(rcalls[max_retries + 2].o).plan
                 /\ rplan # 0

\* C9 witness: four server-overload errors of the preferred model, then
\* the fallback's first response parsed into the returned plan.
C9_Witness ==
    /\ PreferredModel # FlashModel
    /\ Len(rcalls) = max_retries + 2
    /\ \A k \in 1..(max_retries + 1) :
          rcalls[k].model = PreferredModel /\ rcalls[k].o.err = "ServerError"
    /\ rcalls[max_retries + 2].model = FlashModel
    /\ rcalls[max_retries + 2].o.json = "plan_users_orders"
    /\ rplan = 2

\* the response parses to JSON that is no object with `databases` and
\* `queries` arrays
NotAPlanObject(o) ==
    /\ o.err = "none" /\ o.candidates /\ o.text /\ o.json # "none"
    /\ \/ ~JsonTable[o.json].is_object
       \/ JsonTable[o.json].databases # "list"
       \/ JsonTable[o.json].queries # "list"

\* C10: a response whose JSON is no object with `databases` and `queries`
\* arrays ends plan synthesis with InvalidPlan at once: it is the last
\* model call of the request, and no adapter execute call is made.
C10_InvalidPlanNoFallback ==
    \A k \in 1..Len(rcalls) : NotAPlanObject(rcalls[k].o) =>
        /\ k = Len(rcalls)
        /\ rpc = "failed" /\ rerror = "InvalidQueryPlanError"
        /\ rplan = 0 /\ rexecute = 0

\* C10 witness: the preferred model answered {"$sum": 1} while a fallback
\* model was still available.
C10_Witness ==
    /\ PreferredModel # FlashModel
    /\ Len(rcalls) = 1
    /\ rcalls[1].o.json = "sum"
    /\ rerror = "InvalidQueryPlanError"

\* the response carries text from which no JSON can be extracted
NoJsonText(o) ==
    o.err = "none" /\ o.candidates /\ o.text /\ o.json = "none"

\* C11: a response of the preferred model whose text holds no JSON ends
\* plan synthesis with InvalidJSON: it is the last model call of the
\* request (no retry of the same model, no call of the fallback model)
\* and the error surfaced is InvalidJSON.
C11_InvalidJsonNoFallback ==
    \A k \in 1..Len(rcalls) :
        (rcalls[k].model = PreferredModel /\ NoJsonText(rcalls[k].o)) =>
            /\ k = Len(rcalls)
            /\ rpc = "failed" /\ rerror = "InvalidJSONError"

(***************************************************************************)
(* Properties of the plan validator (SpecValidate)                         *)
(***************************************************************************)
VPreferred == models_to_try(vmodel)[1]

\* the fallback model's call k answered with a parseable verdict
FallbackAnswered(k) ==
    /\ vcalls[k].model = FlashModel
    /\ vcalls[k].o.err = "none" /\ vcalls[k].o.candidates /\ vcalls[k].o.text
    /\ VerdictTable[vcalls[k].o.json].parsed

\* C12: when every attempt of the preferred model failed with a transport
\* error and the fallback model then answered, validate_query returns the
\* verdict parsed from the fallback's response instead of failing.
C12_ValidatorFallback ==
    (/\ VPreferred # FlashModel
     /\ Len(vcalls) = max_retries + 2
     /\ \A k \in 1..(max_retries + 1) :
           vcalls[k].model = VPreferred /\ vcalls[k].o.err \in Transport
     /\ FallbackAnswered(max_retries + 2)) =>
        /\ vpc = "returned"
        /\ vresult.from = vcalls[max_retries + 2].o.json
        /\ vresult.safe = VerdictTable[vcalls[max_retries + 2].o.json].safe

\* the validator response carries text that cannot be parsed as JSON
UnparseableVerdict(o) ==
    o.err = "none" /\ o.candidates /\ o.text /\ ~VerdictTable[o.json].parsed

\* C13: whenever the validator model's response text cannot be parsed as
\* JSON, validate_query returns a verdict with safe = false and severity
\* high (on which the request is rejected before any adapter execute).
C13_ValidatorFailsClosed ==
    \A k \in 1..Len(vcalls) : UnparseableVerdict(vcalls[k].o) =>
        /\ vpc = "returned"
        /\ vresult.returned /\ ~vresult.safe /\ vresult.severity = "high"

(***************************************************************************)
(* Properties of the retry helper (SpecRetry)                              *)
(***************************************************************************)
Retryable(k) == tlog[k] # "ok" /\ tlog[k] \in tp.exceptions

\* C14: a retry call invokes func at most max_retries + 1 times, every
\* invocation but the last having failed with a kind in `exceptions` and
\* been followed by one sleep; it ends at the first success (returned),
\* at the first error outside `exceptions` (propagated, no sleep after it)
\* or at the failure of invocation max_retries + 1 (that error raised, no
\* sleep after it), and while it runs fewer than max_retries + 1
\* invocations have been made, so it terminates.
C14_RetryTerminates ==
    LET n == Len(tlog) IN
    /\ n <= tp.max_retries + 1
    /\ \A k \in 1..(n - 1) : Retryable(k)
    /\ tpc = "run" =>
          /\ n = tattempt /\ n <= tp.max_retries
          /\ \A k \in 1..n : Retryable(k)
          /\ Len(tsleeps) = n
    /\ tpc = "returned" =>
          /\ n >= 1 /\ tlog[n] = "ok"
          /\ Len(tsleeps) = n - 1
    /\ tpc = "raised" =>
          /\ n >= 1 /\ tlog[n] # "ok" /\ terror = tlog[n]
          /\ Len(tsleeps) = n - 1
          /\ tlog[n] \notin tp.exceptions \/ n = tp.max_retries + 1

\* C14 witness: three retryable failures, then the last permitted
\* invocation fails too and its error is raised after three sleeps.
C14_Witness ==
    /\ tp.max_retries = 3
    /\ tpc = "raised"
    /\ Len(tlog) = 4 /\ Len(tsleeps) = 3
    /\ terror = "ConnectionError"

\* C15: with jitter disabled (and exponential_base >= 1) the sleep before
\* retry a + 1 is min(initial_delay * base^a, max_delay), so the sleeps
\* of one call are non-decreasing and none exceeds max_delay (sleeps are
\* recorded in half time units).
C15_SleepsMonotone ==
    (~tp.jitter /\ tp.exponential_base >= 1) =>
        /\ \A k \in 1..Len(tsleeps) :
              /\ tsleeps[k] <= 2 * tp.max_delay
              /\ \/ tsleeps[k] = 2 * tp.initial_delay * Pow(tp.exponential_base, k - 1)
                 \/ tsleeps[k] = 2 * tp.max_delay
        /\ \A k \in 1..(Len(tsleeps) - 1) : tsleeps[k] <= tsleeps[k + 1]

\* C15 witness: delays 2, 4 and then the cap 5 (initial_delay 2, base 2,
\* max_delay 5), without jitter.
C15_Witness ==
    /\ ~tp.jitter
    /\ tp.initial_delay = 2 /\ tp.exponential_base = 2 /\ tp.max_delay = 5
    /\ tsleeps = <<4, 8, 10>>

(***************************************************************************)
(* Properties of the executor and the adapters (SpecExec)                  *)
(***************************************************************************)
\* C16: for every plan, the number of records the executor returns is at
\* most the row cap, whatever the sub-queries contain and however many
\* there are.
C16_RowCap ==
    xpc = "returned" => Len(xresult) <= MaxRowsCap

\* the plan is one document sub-query with a pipeline and a valid
\* collection name, on an adapter the tenant has, and its adapter call
\* has been made
DocumentCall ==
    /\ xpath = "single" /\ Len(xtasks) = 1
    /\ xplan[1].query_type = "mongodb" /\ xplan[1].is_list
    /\ validate_collection_name(StrValue(xplan[1].collection))

\* C17: for a plan whose one sub-query is a document pipeline P with a
\* valid collection name c, the executor calls the document adapter with
\* P and the name c, the aggregation runs on collection c with a $limit
\* stage present, and the documents the adapter read are returned.
C17_DocumentExecute ==
    DocumentCall =>
        /\ xargs[1] = StrValue(xplan[1].collection)
        /\ \A rows \in RowsOf(1) :
              LET res == adapter_execute(xplan[1], xargs[1], rows) IN
                 /\ res.error = "none"
                 /\ res.driver.called
                 /\ res.driver.collection = xplan[1].collection
                 /\ res.driver.limit_stage \in {"own", "appended"}
        /\ xpc = "returned" =>
              \E rows \in RowsOf(1) :
                 xresult = adapter_execute(xplan[1], xargs[1], rows).docs

(***************************************************************************)
(* Properties of MongoDBAdapter.execute (SpecMongo)                        *)
(***************************************************************************)
\* a non-empty name made of a letter or underscore followed by letters,
\* digits and underscores only
AllowedName(name) ==
    /\ Len(name) >= 1
    /\ name[1] \in LetterUnits \cup {"_"}
    /\ \A k \in 2..Len(name) : name[k] \in LetterUnits \cup DigitUnits \cup {"_"}

\* the name execute resolves: the argument, or else the "collection"
\* key of the pipeline's first stage
ResolvedName ==
    IF Truthy(mcoll) THEN mcoll
    ELSE IF mpipe.empty THEN AbsentValue ELSE mpipe.first_collection

\* C18: execute issues a driver call only on a collection whose name is a
\* non-empty string of a letter or underscore followed by letters, digits
\* and underscores; for every other name, given as the argument or taken
\* from the pipeline's first stage, it fails before any driver call.
C18_CollectionNames ==
    mpc # "call" =>
        /\ mdriver.called => AllowedName(mdriver.collection)
        /\ ~(ResolvedName.type = "str" /\ AllowedName(ResolvedName.chars)) =>
              /\ mpc = "raised" /\ merror = "ValueError"
              /\ ~mdriver.called

(***************************************************************************)
(* Properties of field masking (SpecMask)                                  *)
(***************************************************************************)
AnyMaskedField == UNION { kmasks[t] : t \in DOMAIN kmasks }

\* C19: the masked result has the same rows in the same order, each with
\* the fields it had: a field named in the mask list of any table has the
\* value "***MASKED***", every other field keeps its value; masking the
\* masked result again with the same masks leaves it unchanged.
C19_FieldMasking ==
    /\ kpc \in {"masked", "remasked"} =>
          /\ Len(kout) = Len(krows)
          /\ \A i \in 1..Len(krows) :
                /\ DOMAIN kout[i] = DOMAIN krows[i]
                /\ \A f \in DOMAIN krows[i] :
                      kout[i][f] = IF f \in AnyMaskedField
                                   THEN "***MASKED***"
                                   ELSE krows[i][f]
    /\ kpc = "remasked" => kout2 = kout

\* C19 witness: masks of two tables, a two-row result whose first row has
\* a masked and an unmasked field and whose second row lacks the masked
\* fields, masked twice.
C19_Witness ==
    /\ kpc = "remasked"
    /\ DOMAIN kmasks = {"users", "orders"}
    /\ Len(krows) = 2
    /\ DOMAIN krows[1] = {"id", "password"}
    /\ krows[1].password = "v" /\ kout[1].password = "***MASKED***"
    /\ kout[1].id = "v"
    /\ DOMAIN krows[2] = {"id"}
    /\ kout2 = kout

(***************************************************************************)
(* Properties of the synthesized plan (Spec)                               *)
(***************************************************************************)
\* C20: every plan returned by plan synthesis has a non-empty databases
\* list, and the database of each of its queries is in that list.
C20_PlanDatabases ==
    rplan # 0 =>
        LET plan == PlanTable[rplan] IN
        /\ plan.databases # <<>>
        /\ \A i \in 1..Len(plan.queries) :
              \E d \in 1..Len(plan.databases) :
                 plan.databases[d] = plan.queries[i].database

(***************************************************************************)
(* Properties of the executor: missing adapters (SpecExec)                 *)
(***************************************************************************)
\* the sub-queries the executor looks at: the first one in the
\* single-database path, all of them in the fan-out path
Dispatched ==
    IF xpath = "single" THEN {1} ELSE 1..Len(xplan)

\* C21: when a sub-query of the plan names a database for which the
\* account has no adapter, no adapter execute call is ever started and
\* the executor does not return a result: it ends with an error, in the
\* single-database path and in the fan-out path alike.
C21_MissingAdapterFailsFast ==
    (xpath # "none" /\ \E i \in Dispatched : xplan[i].database \notin xavail) =>
        /\ \A i \in 1..Len(xtasks) : xtasks[i] = "created"
        /\ xorder = <<>>
        /\ xpc # "returned"
        /\ xpc = "raised" => xresult = <<>>

\* C21 witness: fan-out path, the first sub-query has its adapter and
\* its coroutine was created, the second has none: ValueError.
C21_Witness ==
    /\ xpath = "cross" /\ Len(xplan) >= 2
    /\ xplan[1].database \in xavail
    /\ xplan[2].database \notin xavail
    /\ xtasks = <<"created">>
    /\ xpc = "raised" /\ xerror = "ValueError"

\* C21 witness in the single-database path
C21_WitnessSingle ==
    /\ xpath = "single"
    /\ xplan[1].database \notin xavail
    /\ xpc = "raised" /\ xerror = "ValueError"

(***************************************************************************)
(* Properties of schema introspection (SpecIntrospect)                     *)
(***************************************************************************)
IntroReturned == {c \in IntroCalls : ipc[c] = "returned"}

\* C22: on one adapter instance all introspect_schema calls return
\* value-equal schemas, and a call started after some call has returned a
\* schema never queries the database, pool rebuilds included.
C22_SchemaIdempotent ==
    /\ \A c \in IntroReturned, d \in IntroReturned : iret[c] = iret[d]
    /\ \A c \in IntroCalls : ilate[c] => ifetches[c] = 0

\* the second half of C22 alone: a call started after a return is served
\* from self._schema
LateCallsServedFromCache ==
    \A c \in IntroCalls :
        ilate[c] => /\ ifetches[c] = 0
                    /\ irebuilds[c] = 0
                    /\ ipc[c] \in {"body", "returned"}
                    /\ ipc[c] = "returned" => iret[c] = ischema

\* C23: one introspect_schema call makes at most two introspection
\* attempts and at most one pool rebuild, and a failure that is not a
\* lost connection surfaces without a rebuild and without a retry.
C23_OneRebuildOneRetry ==
    \A c \in IntroCalls :
        /\ ifetches[c] <= 2
        /\ irebuilds[c] <= 1
        /\ ierr[c] = "Exception" => irebuilds[c] = 0 /\ iattempt[c] = 0

\* C30: introspect_schema never waits in pool.close() for a pool from
\* which it still holds a connection.
C30_NoCloseWhileHolding ==
    \A c \in IntroCalls :
        ~(ipc[c] = "inner_close" /\ iheld[c] # 0 /\ iheld[c] = iclosing[c])

(***************************************************************************)
(* Properties of the factory lifecycle (SpecLifecycle, SpecLifecycleFair)  *)
(***************************************************************************)
TaskAdapters == {stasks[i].adapter : i \in 1..Len(stasks)}

EntryOf(local) ==
    [present |-> TRUE, postgres |-> local.postgres, mongodb |-> local.mongodb]

\* adapters held by a call that is still creating them
InCreation ==
    UNION {{flocal[c].postgres, flocal[c].mongodb} :
             c \in {d \in Calls : fpc[d] \in {"postgres", "mongo"}}} \ {0}

\* C24: shutdown terminates; it starts a disconnect for every adapter the
\* cache holds when it is called; a disconnect that fails or times out
\* does not keep any other from being started and awaited; and the step
\* by which shutdown returns leaves the cache empty.
C24_ShutdownCompletes ==
    /\ [][(spc = "idle" /\ spc' = "waiting") => TaskAdapters' = CachedAdapters]_vars
    /\ [](spc = "returned" =>
            /\ TaskAdapters \subseteq sdisc
            /\ \A i \in 1..Len(stasks) :
                   stasks[i].state \in {"done", "failed", "cancelled"})
    /\ [][(spc # "returned" /\ spc' = "returned") => cache' = clear]_vars
    /\ (spc = "waiting" ~> spc = "returned")

\* C24 witness: shutdown has returned although the first disconnect
\* raised and the second was cut off by the timeout; both were invoked.
C24_Witness ==
    /\ spc = "returned"
    /\ Len(stasks) >= 2
    /\ stasks[1].state = "failed"
    /\ stasks[2].state = "cancelled"
    /\ TaskAdapters \subseteq sdisc
    /\ cache = clear

\* C27: every adapter whose connect succeeded is held in the cache, or is
\* still in the hands of the call creating it, or has had disconnect
\* invoked on it.
C27_NoConnectedAdapterDropped ==
    \A id \in 1..Len(adapters) :
        id \in CachedAdapters \cup InCreation \cup sdisc

\* C28: a failed initialization leaves the cache unchanged and the next
\* call for an account without entry creates adapters again; a call that
\* found an entry returned the entry the account still has, as long as
\* shutdown has not been called.
C28_CacheFrame ==
    /\ [][\A c \in Calls :
            /\ (fpc[c] # "no_adapters" /\ fpc'[c] = "no_adapters")
                  => cache' = cache
            /\ (fpc[c] = "idle" /\ fpc'[c] # "idle"
                 /\ ~cache[get_account_by_api_key_async(fkey'[c]).id].present)
                  => fpc'[c] \in {"postgres", "mongo", "no_adapters"}]_vars
    /\ [](\A c \in Calls :
            (fpc[c] = "returned_cached" /\ spc = "idle")
               => cache[Account(c).id] = EntryOf(fret[c]))

(***************************************************************************)
(* Properties of the query endpoint (SpecDemo)                             *)
(***************************************************************************)
\* a lookup of the demo project made by the handler found the project
DemoLookupSucceeded ==
    \/ dlookups >= 1 /\ dstore[1] = "found"
    \/ dlookups >= 2 /\ dstore[2] = "found"

\* C25: for a request without project key ensure_demo_account is called
\* at most once; whenever a lookup of the demo project succeeded, also one
\* made after the ensure call, the request is executed under the demo
\* account; and 401 is the answer only when the ensure call failed or the
\* repeated lookup failed.
C25_DemoFallback ==
    (dkey = "" /\ dpc = "responded") =>
        /\ densures <= 1
        /\ dlookups <= 2
        /\ DemoLookupSucceeded =>
               /\ dtenant = "demo"
               /\ dstatus = CASE dexec = "result" -> 200
                               [] dexec = "ValueError" -> 422
                               [] OTHER -> 500
        /\ dstatus = 401 =>
               \/ densures = 1 /\ ~dcreated
               \/ dlookups = 2 /\ dstore[2] # "found"

(***************************************************************************)
(* Properties of the stderr filter (SpecFilter)                            *)
(***************************************************************************)
Ordinary(t) == ~OfMongoTraceback(t) /\ t # "empty"

\* C26: after any sequence of write calls followed by flush, the texts
\* that do not belong to a MongoDB background-reconnection traceback have
\* all reached the underlying stderr, in the order they were written.
C26_OnlyMongoSuppressed ==
    wpc = "flushed" => SelectSeq(wsink, Ordinary) = SelectSeq(wseq, Ordinary)

QueryRequestNeverExecutes ==
    gskip = "absent" => gexecute = 0 /\ gvalidated = 0

====
